---- MODULE Spec2Model ----
(***************************************************************************)
(* A model of kresp, an incremental RESP parser and encoder.               *)
(*                                                                         *)
(* A byte is a one-character string ("+", "\r", "a", ...); the string      *)
(* "xFF" stands for the byte 0xFF, which never occurs in valid UTF-8.      *)
(* A Vec<u8> or a String is a sequence of bytes.  Rust indexes from 0 and  *)
(* TLA+ from 1: At and Slice do the shift, so cursors keep the values they *)
(* have in the code.                                                       *)
(***************************************************************************)
EXTENDS Integers, Sequences, FiniteSets, TLC

\* ------------------------------------------------------------------------
\* Option<T>, slices, small helpers
\* ------------------------------------------------------------------------

None == [some |-> FALSE]

Some(x) == [some |-> TRUE, v |-> x]

\* buffer[i]
At(buf, i) == buf[i + 1]

\* buffer[a..b]
Slice(buf, a, b) == SubSeq(buf, a + 1, b)

\* bstr's find_byte: offset of the first occurrence of b in s
find_byte(s, b) ==
    IF \E i \in 1..Len(s) : s[i] = b
    THEN Some((CHOOSE i \in 1..Len(s) : s[i] = b /\ \A j \in 1..(i - 1) : s[j] # b) - 1)
    ELSE None

\* str::contains(char) / slice contains
contains(s, b) == \E i \in 1..Len(s) : s[i] = b

\* bstr's to_str succeeds iff the bytes are valid UTF-8.  Every byte of the
\* model but "xFF" is ASCII, and 0xFF is invalid wherever it stands.
Utf8Valid(bytes) == ~contains(bytes, "xFF")

RECURSIVE Concat(_)
Concat(seqs) == IF seqs = <<>> THEN <<>> ELSE Head(seqs) \o Concat(Tail(seqs))

\* ------------------------------------------------------------------------
\* Decimal text.  An i64 is held as a sign and a decimal magnitude without
\* leading zeros (zero is <<0>>, never negative), so that the whole 64-bit
\* range can be written down; a usize is a natural number.
\* ------------------------------------------------------------------------

DigitChars == <<"0", "1", "2", "3", "4", "5", "6", "7", "8", "9">>

IsDigit(c) == \E d \in 1..10 : DigitChars[d] = c

DigitVal(c) == (CHOOSE d \in 1..10 : DigitChars[d] = c) - 1

I64(neg, mag) == [neg |-> neg, mag |-> mag]

\* i64::MAX = 9223372036854775807, and |i64::MIN| = 9223372036854775808
I64MaxMag == <<9, 2, 2, 3, 3, 7, 2, 0, 3, 6, 8, 5, 4, 7, 7, 5, 8, 0, 7>>

I64MinMag == <<9, 2, 2, 3, 3, 7, 2, 0, 3, 6, 8, 5, 4, 7, 7, 5, 8, 0, 8>>

RECURSIVE StripZeros(_)
StripZeros(ds) ==
    IF Len(ds) > 1 /\ Head(ds) = 0 THEN StripZeros(Tail(ds)) ELSE ds

\* a <= b for magnitudes without leading zeros
MagLeq(a, b) ==
    \/ Len(a) < Len(b)
    \/ /\ Len(a) = Len(b)
       /\ \/ a = b
          \/ \E i \in 1..Len(a) :
                /\ a[i] < b[i]
                /\ \A j \in 1..(i - 1) : a[j] = b[j]

\* the range check with the bound of the negative numbers on both sides
parse_mag_symmetric(neg, mag) ==
    IF ~MagLeq(mag, I64MinMag)
    THEN [ok |-> FALSE, err |-> [e |-> "ParseIntError", kind |-> "Overflow"]]
    ELSE [ok |-> TRUE, v |-> I64(neg /\ mag # <<0>>, mag)]

\* <i64 as FromStr>::from_str: an optional '+' or '-', then one or more
\* decimal digits; the value must fit in 64 bits.
parse_mag(neg, mag) ==
    IF ~MagLeq(mag, IF neg THEN I64MinMag ELSE I64MaxMag)
    THEN [ok |-> FALSE, err |-> [e |-> "ParseIntError", kind |-> "Overflow"]]
    ELSE [ok |-> TRUE, v |-> I64(neg /\ mag # <<0>>, mag)]

parse_digits(neg, digits) ==
    IF digits = <<>> \/ \E i \in 1..Len(digits) : ~IsDigit(digits[i])
    THEN [ok |-> FALSE, err |-> [e |-> "ParseIntError", kind |-> "InvalidDigit"]]
    ELSE parse_mag(neg, StripZeros([i \in 1..Len(digits) |-> DigitVal(digits[i])]))

parse_i64(line) ==
    IF line = <<>>
    THEN [ok |-> FALSE, err |-> [e |-> "ParseIntError", kind |-> "Empty"]]
    ELSE IF line[1] \in {"+", "-"}
    THEN parse_digits(line[1] = "-", Tail(line))
    ELSE parse_digits(FALSE, line)

\* to_string that loses the sign
i64_to_string_unsigned(n) == [i \in 1..Len(n.mag) |-> DigitChars[n.mag[i] + 1]]

\* i64::to_string
i64_to_string(n) ==
    (IF n.neg THEN <<"-">> ELSE <<>>) \o [i \in 1..Len(n.mag) |-> DigitChars[n.mag[i] + 1]]

\* usize::to_string
RECURSIVE usize_to_string(_)
usize_to_string(n) ==
    IF n < 10 THEN <<DigitChars[n + 1]>>
    ELSE usize_to_string(n \div 10) \o <<DigitChars[(n % 10) + 1]>>

\* The usize of a non-negative i64 (size.try_into(), which cannot fail where
\* usize has 64 bits).  A magnitude of ten digits or more is above every
\* limit the model configures and is held as 10^9, the least such value.
RECURSIVE MagValue(_)
MagValue(mag) ==
    IF mag = <<>> THEN 0 ELSE MagValue(SubSeq(mag, 1, Len(mag) - 1)) * 10 + mag[Len(mag)]

ManyDigits == 9

HugeSize == 1000000000

i64_to_usize(n) == IF Len(n.mag) > ManyDigits THEN HugeSize ELSE MagValue(n.mag)

\* ------------------------------------------------------------------------
\* resp.rs: RespType
\* ------------------------------------------------------------------------

SimpleString(s) == [t |-> "SimpleString", s |-> s]

Error(s) == [t |-> "Error", s |-> s]

Integer(i) == [t |-> "Integer", i |-> i]

BulkString(b) == [t |-> "BulkString", b |-> b]

Array(a) == [t |-> "Array", a |-> a]

Null == [t |-> "Null"]

NullArray == [t |-> "NullArray"]

CRLF == <<"\r", "\n">>

RECURSIVE as_bytes(_)
\* as_bytes with a CRLF after the elements of an array
as_bytes_closing_array(self) ==
    CASE self.t = "SimpleString" -> <<"+">> \o self.s \o CRLF
      [] self.t = "Error"        -> <<"-">> \o self.s \o CRLF
      [] self.t = "Integer"      -> <<":">> \o i64_to_string(self.i) \o CRLF
      [] self.t = "BulkString"   ->
            <<"$">> \o usize_to_string(Len(self.b)) \o CRLF \o self.b \o CRLF
      [] self.t = "Array"        ->
            <<"*">> \o usize_to_string(Len(self.a)) \o CRLF
                \o Concat([i \in 1..Len(self.a) |-> as_bytes(self.a[i])]) \o CRLF
      [] self.t = "Null"         -> <<"$", "-", "1">> \o CRLF
      [] self.t = "NullArray"    -> <<"*", "-", "1">> \o CRLF

as_bytes(self) ==
    CASE self.t = "SimpleString" -> <<"+">> \o self.s \o CRLF
      [] self.t = "Error"        -> <<"-">> \o self.s \o CRLF
      [] self.t = "Integer"      -> <<":">> \o i64_to_string(self.i) \o CRLF
      [] self.t = "BulkString"   ->
            <<"$">> \o usize_to_string(Len(self.b)) \o CRLF \o self.b \o CRLF
      [] self.t = "Array"        ->
            <<"*">> \o usize_to_string(Len(self.a)) \o CRLF
                \o Concat([i \in 1..Len(self.a) |-> as_bytes(self.a[i])])
      [] self.t = "Null"         -> <<"$", "-", "1">> \o CRLF
      [] self.t = "NullArray"    -> <<"*", "-", "1">> \o CRLF

\* The guarded constructors: Result<Self> for the two that can fail
\* simple_string that looks for '\r' only
simple_string_cr_only(string) ==
    IF contains(string, "\r")
    THEN [ok |-> FALSE]
    ELSE [ok |-> TRUE, v |-> SimpleString(string)]

simple_string(string) ==
    IF contains(string, "\r") \/ contains(string, "\n")
    THEN [ok |-> FALSE]
    ELSE [ok |-> TRUE, v |-> SimpleString(string)]

error(string) ==
    IF contains(string, "\r") \/ contains(string, "\n")
    THEN [ok |-> FALSE]
    ELSE [ok |-> TRUE, v |-> Error(string)]

integer(int) == Integer(int)

bulk_string(string) == BulkString(string)

array(arr) == Array(arr)

command(cmd) == array([i \in 1..Len(cmd) |-> bulk_string(cmd[i])])

\* ------------------------------------------------------------------------
\* Results.  A Rust Result is Ok-shaped or Err(e); a slice or drain range
\* outside the buffer panics, which is the outcome Panic.
\* ------------------------------------------------------------------------

Err(e) == [k |-> "Err", err |-> e]

Panic == [k |-> "Panic"]

\* parser.rs: ParserError, and the foreign errors `?` converts into anyhow
ReadlineError(msg) == [e |-> "ReadlineError", msg |-> msg]

ReadsizeError(size) == [e |-> "ReadsizeError", size |-> size]

StateError(handler) == [e |-> "StateError", handler |-> handler]

TypeTokenError(c) == [e |-> "TypeTokenError", c |-> c]

SizeExceededError == [e |-> "SizeExceededError"]

Utf8Error == [e |-> "Utf8Error"]

\* ------------------------------------------------------------------------
\* buffer.rs.  Where the code matches on a result, the arms are an operator
\* of their own (<function>_on ...) that takes the matched value.
\* ------------------------------------------------------------------------

\* the arm `true =>` without the search of the line for a '\n'
readline_line_unsearched(line, length_needed) ==
    IF ~Utf8Valid(line) THEN Err(Utf8Error)
    ELSE [k |-> "Line", line |-> line, cursor |-> length_needed]

\* the arm `true =>` of buffer[length_needed - 1] == b'\n'
readline_line(line, length_needed) ==
    IF ~Utf8Valid(line) THEN Err(Utf8Error)
    ELSE IF contains(line, "\n") THEN Err(ReadlineError([why |-> "premature_lf"]))
    ELSE [k |-> "Line", line |-> line, cursor |-> length_needed]

\* the arm Some(cr), with the resumption cursor of a trailing '\r' set past
\* it, so that the next scan never sees that '\r' again
readline_cr_skipped(buffer, cursor, start, cr) ==
    IF ~(Len(buffer) >= cursor + cr + 2)
    THEN [k |-> "None", cursor |-> Len(buffer)]
    ELSE IF At(buffer, cursor + cr + 1) = "\n"
    THEN readline_line(Slice(buffer, start, cursor + cr), cursor + cr + 2)
    ELSE Err(ReadlineError([why |-> "expected_lf", got |-> At(buffer, cr + 1)]))

\* the arm Some(cr): end = cursor + cr, length_needed = end + 2
readline_cr(buffer, cursor, start, cr) ==
    IF ~(Len(buffer) >= cursor + cr + 2)
    THEN [k |-> "None", cursor |-> Len(buffer) - 1]
    ELSE IF At(buffer, cursor + cr + 1) = "\n"
    THEN IF start > cursor + cr THEN Panic
         ELSE readline_line(Slice(buffer, start, cursor + cr), cursor + cr + 2)
    ELSE Err(ReadlineError([why |-> "expected_lf", got |-> At(buffer, cr + 1)]))

\* the match on find_byte with the arm None leaving the cursor where it was
readline_on_stays(buffer, cursor, start, found) ==
    IF found.some
    THEN readline_cr(buffer, cursor, start, found.v)
    ELSE [k |-> "None", cursor |-> cursor]

readline_on(buffer, cursor, start, found) ==
    IF found.some
    THEN readline_cr(buffer, cursor, start, found.v)
    ELSE [k |-> "None", cursor |-> Len(buffer)]

readline(buffer, cursor, start) ==
    IF cursor > Len(buffer) THEN Panic
    ELSE readline_on(buffer, cursor, start,
                     find_byte(Slice(buffer, cursor, Len(buffer)), "\r"))

\* readbuffer that returns the blob only when "\r\n" follows it
readbuffer_terminated(buffer, cursor, size) ==
    IF /\ Len(buffer) >= cursor + size + 2
       /\ At(buffer, cursor + size) = "\r"
       /\ At(buffer, cursor + size + 1) = "\n"
    THEN Some([data |-> Slice(buffer, cursor, cursor + size), end |-> cursor + size + 2])
    ELSE None

\* readbuffer that wants one byte more than the blob and its terminator
readbuffer_one_more(buffer, cursor, size) ==
    IF Len(buffer) > cursor + size + 2
    THEN Some([data |-> Slice(buffer, cursor, cursor + size), end |-> cursor + size + 2])
    ELSE None

readbuffer(buffer, cursor, size) ==
    IF Len(buffer) >= cursor + size + 2
    THEN Some([data |-> Slice(buffer, cursor, cursor + size), end |-> cursor + size + 2])
    ELSE None

\* the match on size with every negative size taken for the null
readsize_size_any_negative(size, end) ==
    IF size.neg THEN [k |-> "Null", end |-> end]
    ELSE [k |-> "Size", end |-> end, size |-> i64_to_usize(size)]

\* the match on size with -1 taken for an empty size
readsize_size_null_as_zero(size, end) ==
    IF size.neg /\ size.mag # <<1>> THEN Err(ReadsizeError(size))
    ELSE IF size.neg THEN [k |-> "Size", end |-> end, size |-> 0]
    ELSE [k |-> "Size", end |-> end, size |-> i64_to_usize(size)]

\* the match on size
readsize_size(size, end) ==
    IF size.neg /\ size.mag # <<1>> THEN Err(ReadsizeError(size))
    ELSE IF size.neg THEN [k |-> "Null", end |-> end]
    ELSE [k |-> "Size", end |-> end, size |-> i64_to_usize(size)]

\* let size: i64 = line.parse()?
readsize_parsed(parsed, end) ==
    IF parsed.ok THEN readsize_size(parsed.v, end) ELSE Err(parsed.err)

readsize_on(rl) ==
    CASE rl.k = "Line" -> readsize_parsed(parse_i64(rl.line), rl.cursor)
      [] rl.k = "None" -> [k |-> "None", end |-> rl.cursor]
      [] OTHER -> rl

readsize(buffer, cursor, start) == readsize_on(readline(buffer, cursor, start))

\* ------------------------------------------------------------------------
\* config.rs
\* ------------------------------------------------------------------------

DEFAULT_MAX == 512 * 1024 * 1024

RespConfig_new(max_resp_size, max_buffer_size) ==
    [max_resp_size |-> max_resp_size, max_buffer_size |-> max_buffer_size]

RespConfig_default == RespConfig_new(DEFAULT_MAX, DEFAULT_MAX)

\* ------------------------------------------------------------------------
\* parser.rs: State, StateResult
\* ------------------------------------------------------------------------

State_GetType(cursor) == [tag |-> "GetType", cursor |-> cursor]

State_Simple(cursor, start, simple_type) ==
    [tag |-> "Simple", cursor |-> cursor, start |-> start, simple_type |-> simple_type]

State_BulkString(cursor, start, size) ==
    [tag |-> "BulkString", cursor |-> cursor, start |-> start, size |-> size]

State_Array(cursor, start, size, elements, substate) ==
    [tag |-> "Array", cursor |-> cursor, start |-> start, size |-> size,
     elements |-> elements, substate |-> substate]

State_get_type(cursor) == State_GetType(cursor)

State_get_simple(cursor, simple_type) == State_Simple(cursor, cursor, simple_type)

State_get_bulk_string(cursor) == State_BulkString(cursor, cursor, None)

State_get_array(cursor) == State_Array(cursor, cursor, None, None, None)

Incomplete(state) == [k |-> "Incomplete", state |-> state]

Done(item, end) == [k |-> "Done", item |-> item, end |-> end]

\* ------------------------------------------------------------------------
\* parser.rs: RespParser.  self is [buffer, state, config]; the handlers
\* borrow it immutably and return a StateResult, an Err or a Panic.
\* ------------------------------------------------------------------------

RespParser_new(config) == [buffer |-> <<>>, state |-> None, config |-> config]

RECURSIVE process_state(_, _), get_type(_, _), get_array(_, _), get_array_on(_, _, _)
RECURSIVE array_loop(_, _, _, _, _, _), array_loop_on(_, _, _, _, _, _)

\* SimpleType::Integer => RespType::Integer(line.parse()?)
get_simple_integer(parsed, cursor) ==
    IF parsed.ok THEN Done(Integer(parsed.v), cursor) ELSE Err(parsed.err)

get_simple_on(self, state, rl) ==
    CASE rl.k = "Line" ->
            IF Len(rl.line) > self.config.max_resp_size
            THEN Err(SizeExceededError)
            ELSE (CASE state.simple_type = "String" ->
                         Done(SimpleString(rl.line), rl.cursor)
                    [] state.simple_type = "Error" ->
                         Done(Error(rl.line), rl.cursor)
                    [] state.simple_type = "Integer" ->
                         get_simple_integer(parse_i64(rl.line), rl.cursor))
      [] rl.k = "None" ->
            Incomplete(State_Simple(rl.cursor, state.start, state.simple_type))
      [] OTHER -> rl

get_simple(self, state) ==
    IF state.tag = "Simple"
    THEN get_simple_on(self, state, readline(self.buffer, state.cursor, state.start))
    ELSE Err(StateError("get_simple"))

\* match readbuffer(&self.buffer, cursor, size)
get_bulk_string_blob(state, cursor, size, rb) ==
    IF rb.some
    THEN Done(BulkString(rb.v.data), rb.v.end)
    ELSE Incomplete(State_BulkString(cursor, state.start, Some(size)))

\* get_bulk_string without the check of the length against max_resp_size
get_bulk_string_on_unchecked(self, state, rs) ==
    CASE rs.k = "None" -> Incomplete(State_BulkString(rs.end, state.start, None))
      [] rs.k = "Null" -> Done(Null, rs.end)
      [] rs.k = "Size" ->
            get_bulk_string_blob(state, rs.end, rs.size,
                                 readbuffer(self.buffer, rs.end, rs.size))
      [] OTHER -> rs

\* rs is the (cursor, size) of a known length, or what readsize returned
get_bulk_string_on(self, state, rs) ==
    CASE rs.k = "None" -> Incomplete(State_BulkString(rs.end, state.start, None))
      [] rs.k = "Null" -> Done(Null, rs.end)
      [] rs.k = "Size" ->
            IF rs.size > self.config.max_resp_size
            THEN Err(SizeExceededError)
            ELSE get_bulk_string_blob(state, rs.end, rs.size,
                                      readbuffer(self.buffer, rs.end, rs.size))
      [] OTHER -> rs

get_bulk_string(self, state) ==
    IF state.tag = "BulkString"
    THEN get_bulk_string_on(self, state,
            IF state.size.some
            THEN [k |-> "Size", end |-> state.cursor, size |-> state.size.v]
            ELSE readsize(self.buffer, state.cursor, state.start))
    ELSE Err(StateError("get_bulk_string"))

\* process_state with the Simple arm routed to the bulk string handler
process_state_misrouted(self, state) ==
    CASE state.tag = "GetType"    -> get_type(self, state)
      [] state.tag = "Simple"     -> get_bulk_string(self, state)
      [] state.tag = "BulkString" -> get_bulk_string(self, state)
      [] state.tag = "Array"      -> get_array(self, state)

process_state(self, state) ==
    CASE state.tag = "GetType"    -> get_type(self, state)
      [] state.tag = "Simple"     -> get_simple(self, state)
      [] state.tag = "BulkString" -> get_bulk_string(self, state)
      [] state.tag = "Array"      -> get_array(self, state)

\* the match on the type byte
get_type_state(token, next_cursor) ==
    CASE token = "+" -> State_get_simple(next_cursor, "String")
      [] token = "-" -> State_get_simple(next_cursor, "Error")
      [] token = ":" -> State_get_simple(next_cursor, "Integer")
      [] token = "$" -> State_get_bulk_string(next_cursor)
      [] token = "*" -> State_get_array(next_cursor)

\* get_type that looks at the type byte only once a second byte is there
get_type_waits(self, state) ==
    IF state.tag = "GetType"
    THEN IF Len(self.buffer) <= state.cursor + 1
         THEN Incomplete(State_get_type(state.cursor))
         ELSE IF At(self.buffer, state.cursor) \notin {"+", "-", ":", "$", "*"}
         THEN Err(TypeTokenError(At(self.buffer, state.cursor)))
         ELSE process_state(self, get_type_state(At(self.buffer, state.cursor),
                                                 state.cursor + 1))
    ELSE Err(StateError("get_type"))

get_type(self, state) ==
    IF state.tag = "GetType"
    THEN IF Len(self.buffer) <= state.cursor
         THEN Incomplete(State_get_type(state.cursor))
         ELSE IF At(self.buffer, state.cursor) \notin {"+", "-", ":", "$", "*"}
         THEN Err(TypeTokenError(At(self.buffer, state.cursor)))
         ELSE IF Len(self.buffer) > state.cursor + 1
         THEN process_state(self, get_type_state(At(self.buffer, state.cursor),
                                                 state.cursor + 1))
         ELSE Incomplete(get_type_state(At(self.buffer, state.cursor), state.cursor + 1))
    ELSE Err(StateError("get_type"))

\* the loop saving an empty elements list when a child is incomplete
array_loop_on_drops_elements(self, start, size, elements, cursor, r) ==
    CASE r.k = "Done" ->
            array_loop(self, start, size, Append(elements, r.item), r.end, None)
      [] r.k = "Incomplete" ->
            Incomplete(State_Array(cursor, start, Some(size), Some(<<>>),
                                   Some(r.state)))
      [] OTHER -> r

\* the while loop of get_array: match self.process_state(state)?
array_loop_on(self, start, size, elements, cursor, r) ==
    CASE r.k = "Done" ->
            array_loop(self, start, size, Append(elements, r.item), r.end, None)
      [] r.k = "Incomplete" ->
            Incomplete(State_Array(cursor, start, Some(size), Some(elements),
                                   Some(r.state)))
      [] OTHER -> r

\* the while loop ending one element before the declared size
array_loop_one_short(self, start, size, elements, cursor, substate) ==
    IF Len(elements) + 1 < size
    THEN array_loop_on(self, start, size, elements, cursor,
            process_state(self, IF substate.some THEN substate.v
                                ELSE State_get_type(cursor)))
    ELSE Done(Array(elements), cursor)

array_loop(self, start, size, elements, cursor, substate) ==
    IF Len(elements) < size
    THEN array_loop_on(self, start, size, elements, cursor,
            process_state(self, IF substate.some THEN substate.v
                                ELSE State_get_type(cursor)))
    ELSE Done(Array(elements), cursor)

\* get_array without the check of the size against max_resp_size
get_array_on_unchecked(self, state, rs) ==
    CASE rs.k = "None" ->
            Incomplete(State_Array(rs.end, state.start, None, None, None))
      [] rs.k = "Null" -> Done(NullArray, rs.end)
      [] rs.k = "Size" ->
            IF ~state.size.some /\ rs.size = 0
            THEN Done(Array(<<>>), rs.end)
            ELSE array_loop(self, state.start, rs.size,
                            IF state.elements.some THEN state.elements.v ELSE <<>>,
                            rs.end, state.substate)
      [] OTHER -> rs

\* rs is the (cursor, size) of a known size, or what readsize returned
get_array_on(self, state, rs) ==
    CASE rs.k = "None" ->
            Incomplete(State_Array(rs.end, state.start, None, None, None))
      [] rs.k = "Null" -> Done(NullArray, rs.end)
      [] rs.k = "Size" ->
            IF ~state.size.some /\ rs.size = 0
            THEN Done(Array(<<>>), rs.end)
            ELSE IF rs.size > self.config.max_resp_size
            THEN Err(SizeExceededError)
            ELSE array_loop(self, state.start, rs.size,
                            IF state.elements.some THEN state.elements.v ELSE <<>>,
                            rs.end, state.substate)
      [] OTHER -> rs

get_array(self, state) ==
    IF state.tag = "Array"
    THEN get_array_on(self, state,
            IF state.size.some
            THEN [k |-> "Size", end |-> state.cursor, size |-> state.size.v]
            ELSE readsize(self.buffer, state.cursor, state.start))
    ELSE Err(StateError("get_array"))

Ok(items) == [k |-> "Ok", items |-> items]

\* the buffer emptied whatever the end of the frame
drain_everything(buffer, end) == <<>>

\* Vec::drain(..end) on the buffer
drain(buffer, end) == Slice(buffer, end, Len(buffer))

\* get_next: one frame from GetType{cursor: 0}.  Returns the parser and
\* Ok(Some(item)), Ok(None), an Err or a Panic (a drain past the end).
get_next_on(self, r) ==
    CASE r.k = "Incomplete" ->
            [self |-> [self EXCEPT !.state = Some(r.state)], r |-> Ok(None)]
      [] r.k = "Done" ->
            IF r.end > Len(self.buffer)
            THEN [self |-> self, r |-> Panic]
            ELSE [self |-> [self EXCEPT !.buffer = drain(self.buffer, r.end)],
                  r |-> Ok(Some(r.item))]
      [] OTHER -> [self |-> self, r |-> r]

get_next(self) == get_next_on(self, get_type(self, State_get_type(0)))

\* the `loop` of read: match self.get_next()
RECURSIVE read_loop(_, _)
\* the loop with each new item put in front of the earlier ones
read_loop_on_prepends(items, n) ==
    CASE n.r.k = "Ok" ->
            IF n.r.items.some
            THEN read_loop(n.self, <<n.r.items.v>> \o items)
            ELSE [self |-> n.self, r |-> Ok(items)]
      [] n.r.k = "Err" ->
            [self |-> [n.self EXCEPT !.buffer = <<>>], r |-> n.r]
      [] OTHER -> n

\* the loop returning the values in hand when get_next fails
read_loop_on_returns_collected(items, n) ==
    CASE n.r.k = "Ok" ->
            IF n.r.items.some
            THEN read_loop(n.self, Append(items, n.r.items.v))
            ELSE [self |-> n.self, r |-> Ok(items)]
      [] n.r.k = "Err" ->
            [self |-> [n.self EXCEPT !.buffer = <<>>], r |-> Ok(items)]
      [] OTHER -> n

\* the loop returning as soon as it has one value
read_loop_on_returns_early(items, n) ==
    CASE n.r.k = "Ok" ->
            IF n.r.items.some
            THEN [self |-> n.self, r |-> Ok(Append(items, n.r.items.v))]
            ELSE [self |-> n.self, r |-> Ok(items)]
      [] n.r.k = "Err" ->
            [self |-> [n.self EXCEPT !.buffer = <<>>], r |-> n.r]
      [] OTHER -> n

read_loop_on(items, n) ==
    CASE n.r.k = "Ok" ->
            IF n.r.items.some
            THEN read_loop(n.self, Append(items, n.r.items.v))
            ELSE [self |-> n.self, r |-> Ok(items)]
      [] n.r.k = "Err" ->
            [self |-> [n.self EXCEPT !.buffer = <<>>], r |-> n.r]
      [] OTHER -> n

read_loop(self, items) == read_loop_on(items, get_next(self))

\* the resumption with the Incomplete arm returning before the state taken
\* out of self is put back
read_resumed_forgets(taken, r) ==
    CASE r.k = "Incomplete" -> [self |-> taken, r |-> Ok(<<>>)]
      [] r.k = "Done" ->
            IF r.end > Len(taken.buffer)
            THEN [self |-> taken, r |-> Panic]
            ELSE read_loop([taken EXCEPT !.buffer = drain(taken.buffer, r.end)],
                           <<r.item>>)
      [] r.k = "Err" ->
            [self |-> [taken EXCEPT !.buffer = <<>>], r |-> r]
      [] OTHER -> [self |-> taken, r |-> r]

\* the resumption with the Err arm returning before the buffer is cleared
read_resumed_keeps_buffer(taken, r) ==
    CASE r.k = "Incomplete" ->
            [self |-> [taken EXCEPT !.state = Some(r.state)], r |-> Ok(<<>>)]
      [] r.k = "Done" ->
            IF r.end > Len(taken.buffer)
            THEN [self |-> taken, r |-> Panic]
            ELSE read_loop([taken EXCEPT !.buffer = drain(taken.buffer, r.end)],
                           <<r.item>>)
      [] OTHER -> [self |-> taken, r |-> r]

\* if let Some(state) = self.state.take(): match self.process_state(state)
read_resumed(taken, r) ==
    CASE r.k = "Incomplete" ->
            [self |-> [taken EXCEPT !.state = Some(r.state)], r |-> Ok(<<>>)]
      [] r.k = "Done" ->
            IF r.end > Len(taken.buffer)
            THEN [self |-> taken, r |-> Panic]
            ELSE read_loop([taken EXCEPT !.buffer = drain(taken.buffer, r.end)],
                           <<r.item>>)
      [] r.k = "Err" ->
            [self |-> [taken EXCEPT !.buffer = <<>>], r |-> r]
      [] OTHER -> [self |-> taken, r |-> r]

\* read without the check of the buffer against max_buffer_size
read_pushed_unchecked(pushed) ==
    IF pushed.state.some
    THEN read_resumed([pushed EXCEPT !.state = None],
                      process_state([pushed EXCEPT !.state = None], pushed.state.v))
    ELSE read_loop(pushed, <<>>)

\* read, once the bytes have been pushed onto self.buffer
read_pushed(pushed) ==
    IF Len(pushed.buffer) > pushed.config.max_buffer_size
    THEN [self |-> [pushed EXCEPT !.buffer = <<>>], r |-> Err(SizeExceededError)]
    ELSE IF pushed.state.some
    THEN read_resumed([pushed EXCEPT !.state = None],
                      process_state([pushed EXCEPT !.state = None], pushed.state.v))
    ELSE read_loop(pushed, <<>>)

\* RespParser::read.  Returns the parser after the call and the call's
\* result: Ok(items), Err(error), or Panic.
read(self, bytes) == read_pushed([self EXCEPT !.buffer = self.buffer \o bytes])

\* ------------------------------------------------------------------------
\* The inputs.  A run's byte stream is the encoding of a list of values
\* (vals, built with the guarded constructors) followed by a tail of raw
\* bytes; the caller feeds it to one parser in chunks of any size.
\* ------------------------------------------------------------------------

MaxChunk == 2

MaxWidth == 2

MaxDepth == 1

MaxFrames == 2

MaxParts == 2

SmallResp == 2

SmallBuf == 9

MaxText == 2

RECURSIVE SeqsUpTo(_, _)
SeqsUpTo(S, n) ==
    IF n = 0 THEN {<<>>}
    ELSE LET shorter == SeqsUpTo(S, n - 1) IN
         shorter \cup {Append(q, x) : q \in {r \in shorter : Len(r) = n - 1}, x \in S}

\* arguments offered to simple_string and error; the guards refuse some
Texts == {<<>>, <<"a">>, <<"O", "K">>, <<"a", "\r">>, <<"\n">>, <<"\r", "\n">>}

Ints ==
    {I64(FALSE, <<0>>), I64(FALSE, <<7>>), I64(TRUE, <<1, 2>>),
     I64(FALSE, I64MaxMag), I64(TRUE, I64MinMag)}

Blobs == {<<>>, <<"a">>, <<"\r", "\n">>, <<"xFF", "\n", "b">>}

Atoms ==
    {simple_string(t).v : t \in {u \in Texts : simple_string(u).ok}}
    \cup {error(t).v : t \in {u \in Texts : error(u).ok}}
    \cup {integer(i) : i \in Ints}
    \cup {bulk_string(b) : b \in Blobs}
    \cup {Null, NullArray}

\* the elements arrays are built from
Elems ==
    <<SimpleString(<<"a">>), Null, Integer(I64(TRUE, <<1, 2>>)), BulkString(<<"\r", "\n">>),
      NullArray, Error(<<"e">>), BulkString(<<>>)>>

\* arrays of w consecutive elements of Elems, from every starting point
FlatArrays ==
    {array([i \in 1..w |-> Elems[((r + i) % Len(Elems)) + 1]]) :
        w \in 0..MaxWidth, r \in 1..Len(Elems)}

Commands == {command(argv) : argv \in SeqsUpTo(Blobs, MaxWidth)}

\* arrays that hold v, alone or beside one more element
Wrap(v) == {array(<<v>>), array(<<v, Elems[1]>>), array(<<Elems[3], v>>)}

RECURSIVE Nested(_)
Nested(d) ==
    IF d = 0 THEN FlatArrays
    ELSE LET inner == Nested(d - 1) IN inner \cup UNION {Wrap(v) : v \in inner}

\* tests::complex_nested
ComplexNested ==
    array(<<NullArray,
            array(<<bulk_string(<<"h", "e", "l", "l", "o">>),
                    bulk_string(<<"w", "o", "r", "l", "d">>)>>),
            array(<<SimpleString(<<"t", "e", "s", "t">>),
                    Error(<<"t", "e", "s", "t", "3">>),
                    integer(I64(TRUE, <<1, 2, 3, 4, 5>>)),
                    bulk_string(<<"a", "b">>),
                    Null>>)>>)

\* a bulk string whose length takes two digits
TwoDigitBlob == bulk_string([i \in 1..12 |-> "a"])

Values == Atoms \cup Nested(MaxDepth) \cup Commands \cup {ComplexNested, TwoDigitBlob}

\* the values of multi-frame streams
StreamValues ==
    {SimpleString(<<"a">>), Integer(I64(TRUE, <<1, 2>>)), BulkString(<<"\r", "\n">>),
     Array(<<Error(<<"e">>), NullArray>>)}

\* raw fragments: whole frames, openings of frames, and malformed bytes
Parts ==
    {<<"+">>, <<"\r">>, <<"\n">>, <<"a">>, <<"#">>, <<"xFF">>,
     <<"+", "a", "\r", "\n">>,
     <<":", "+", "5", "\r", "\n">>,
     <<":", "x", "\r", "\n">>,
     <<"$", "1", "\r", "\n", "a", "\r", "\n">>,
     <<"$", "2", "\r", "\n", "a", "b", "X", "Y">>,
     <<"$", "3", "\r", "\n">>,
     <<"$", "-", "1", "\r", "\n">>,
     <<"$", "-", "2", "\r", "\n">>,
     <<"*", "0", "\r", "\n">>,
     <<"*", "2", "\r", "\n">>,
     <<"*", "2", "\r", "\n", ":", "7", "\r", "\n">>,
     <<"*", "3", "\r", "\n">>,
     <<"+", "a", "b", "c", "\r", "\n">>,
     <<"+", "a", "\n", "b", "\r", "\n">>,
     <<"+", "xFF", "\r", "\n">>,
     <<"+", "a", "\r", "x">>}

\* what may follow a fragment: the bytes that complete or break a line, a
\* frame start, whole frames, and a blob with no CRLF after it
Followers ==
    {<<"\r">>, <<"\n">>, <<"a">>, <<"#">>, <<"+">>,
     <<"$", "-", "1", "\r", "\n">>,
     <<"*", "0", "\r", "\n">>,
     <<"$", "2", "\r", "\n", "a", "b", "X", "Y">>}

\* a fragment, or none, and up to MaxParts - 1 followers
Tails ==
    {p \o Concat(fs) : p \in Parts \cup {<<>>}, fs \in SeqsUpTo(Followers, MaxParts - 1)}

\* what follows a stream of several frames: nothing, the opening of a
\* frame, a line suspended on its '\r', a byte that is no type byte
CoreTails == {<<>>, <<"+">>, <<"+", "O", "K", "\r">>, <<"#">>}

\* what follows a stream of at most one frame
ShortTails ==
    {<<>>, <<"+">>, <<"+", "O", "K", "\r">>, <<"#">>,
     <<"+", "a", "\r", "x">>, <<"*", "1", "\r", "\n", "#">>,
     <<"*", "1", "\r", "\n", "$", "1", "\r", "x">>,
     <<"*", "1", "\r", "\n", "-", "\n", "\r", "\n">>,
     <<"*", "1", "\r", "\n", "*", "7", "\r", "\n">>,
     <<"*", "1", "\r", "\n", "$", "7", "\r", "\n">>,
     <<"#", "+", "b", "\r", "\n">>}

\* the text of a digit string
Decimal(mag) == [i \in 1..Len(mag) |-> DigitChars[mag[i] + 1]]

\* |i64::MIN| + 1, the magnitude of the first number below the range
I64BelowMinMag == <<9, 2, 2, 3, 3, 7, 2, 0, 3, 6, 8, 5, 4, 7, 7, 5, 8, 0, 9>>

\* the texts of integer and length lines: every text of up to MaxText
\* characters over a sign, digits, a letter and a space, and the texts at
\* the two ends of the 64-bit range
LineChars == {"-", "+", "0", "1", "x", " "}

BigTexts ==
    {Decimal(I64MaxMag), Decimal(I64MinMag),
     <<"-">> \o Decimal(I64MinMag), <<"-">> \o Decimal(I64BelowMinMag),
     <<"0", "0">> \o Decimal(I64MaxMag),
     [i \in 1..20 |-> "9"], <<"-">> \o [i \in 1..20 |-> "9"]}

LineTexts == SeqsUpTo(LineChars, MaxText) \cup BigTexts

\* a ':', '$' or '*' line of each text, alone or with the first byte of a
\* further frame or payload behind it
Lines ==
    {<<t>> \o text \o CRLF \o after :
        t \in {":", "$", "*"}, text \in LineTexts, after \in {<<>>, <<"+">>}}

EncodeAll(vs) == Concat([i \in 1..Len(vs) |-> as_bytes(vs[i])])

Streams ==
    {[vals |-> <<v>>, tail |-> <<>>] : v \in Values}
    \cup {[vals |-> vs, tail |-> t] : vs \in SeqsUpTo(StreamValues, MaxFrames), t \in CoreTails}
    \cup {[vals |-> vs, tail |-> t] : vs \in SeqsUpTo(StreamValues, 1), t \in ShortTails}
    \cup {[vals |-> <<>>, tail |-> t] : t \in Tails \cup Lines}

Configs ==
    {RespConfig_default,
     RespConfig_new(SmallResp, DEFAULT_MAX),
     RespConfig_new(DEFAULT_MAX, SmallBuf)}

\* ------------------------------------------------------------------------
\* The state machine: one parser, fed the stream chunk by chunk
\* ------------------------------------------------------------------------

VARIABLES
    config,     \* RespParser.config
    buffer,     \* RespParser.buffer
    state,      \* RespParser.state
    vals,       \* the values whose encodings open the stream
    input,      \* the whole byte stream
    pos,        \* how many of its bytes have been fed
    result,     \* what the last read call returned
    emitted,    \* every value returned so far, in order
    failed      \* whether some call has returned an error

vars == <<config, buffer, state, vals, input, pos, result, emitted, failed>>

self == [buffer |-> buffer, state |-> state, config |-> config]

Init ==
    /\ config \in Configs
    /\ \E s \in Streams : vals = s.vals /\ input = EncodeAll(s.vals) \o s.tail
    /\ buffer = RespParser_new(config).buffer
    /\ state = RespParser_new(config).state
    /\ pos = 0
    /\ result = [k |-> "NoCall"]
    /\ emitted = <<>>
    /\ failed = FALSE

\* what a call leaves behind: out is what read returned
Returned(out) ==
    /\ buffer' = out.self.buffer
    /\ state' = out.self.state
    /\ result' = out.r
    /\ emitted' = IF out.r.k = "Ok" THEN emitted \o out.r.items ELSE emitted
    /\ failed' = (failed \/ out.r.k = "Err")

\* parser.read(&input[pos .. pos + n]); a panic ends the run
Feed(n) ==
    /\ result.k # "Panic"
    /\ pos + n <= Len(input)
    /\ Returned(read(self, SubSeq(input, pos + 1, pos + n)))
    /\ pos' = pos + n
    /\ UNCHANGED <<config, vals, input>>

ReadChunk == \E n \in 1..MaxChunk : Feed(n)

ReadEmpty == Feed(0)

ReadRest == Len(input) - pos > MaxChunk /\ Feed(Len(input) - pos)

Next == ReadChunk \/ ReadEmpty \/ ReadRest

Spec == Init /\ [][Next]_vars

\* ------------------------------------------------------------------------
\* Properties
\* ------------------------------------------------------------------------

\* the bytes fed so far
Fed == SubSeq(input, 1, pos)

\* one read of all the bytes fed so far, on a fresh parser
OneRead == read(RespParser_new(config), Fed).r

\* the values a result returns: none when it is not Ok
ItemsOf(r) == IF r.k = "Ok" THEN r.items ELSE <<>>

\* C1 as stated: the lists returned by the chunked calls, concatenated (a
\* failed call adding nothing), are the list one read of the same bytes
\* returns (nothing when it fails).
C1_AnyInput ==
    result.k # "Panic" => emitted = ItemsOf(OneRead)

C1_Accepted(one) == one.k = "Ok" => emitted = one.items

\* C1, amended: whenever one read of the bytes on a fresh parser returns
\* Ok(L), the lists returned by the chunked calls concatenate to exactly L,
\* for every partition into chunks.
C1_FragmentationInvariance == LET one == OneRead IN C1_Accepted(one)

C1_Case(one) ==
    /\ one.k = "Ok"
    /\ Len(one.items) >= 2
    /\ emitted = one.items

\* C1's case: two or more values, the last call returned only the last one
\* and left the opening of another frame in the buffer
C1_Witness ==
    /\ result.k = "Ok"
    /\ Len(result.items) = 1
    /\ buffer # <<>>
    /\ C1_Case(OneRead)

\* ---- C2 ---------------------------------------------------------------

\* the stream is the encoding of one value and nothing else
OneValue == Len(vals) = 1 /\ input = as_bytes(vals[1])

\* one read of as_bytes(v) on a fresh default-configured parser
Decode(v) == read(RespParser_new(RespConfig_default), as_bytes(v)).r

\* C2: for every value v built through the guarded constructors, at any
\* nesting depth, feeding as_bytes(v) to a fresh default-configured parser
\* returns Ok([v]); the same holds of the chunked feed once the last byte is
\* in.
C2_RoundTrip ==
    (config = RespConfig_default /\ OneValue) =>
        /\ Decode(vals[1]) = Ok(<<vals[1]>>)
        /\ pos = Len(input) => (~failed /\ result.k = "Ok" /\ emitted = vals)

\* C2's case: a nested array is back from its own encoding
C2_Witness ==
    /\ config = RespConfig_default
    /\ OneValue
    /\ pos = Len(input)
    /\ result = Ok(vals)
    /\ vals[1].t = "Array"
    /\ \E i \in 1..Len(vals[1].a) : vals[1].a[i].t = "Array" /\ vals[1].a[i].a # <<>>

\* ---- C3 ---------------------------------------------------------------

\* whether every size of v is within max_resp_size: the text of a simple
\* string, error or integer line, the length of a bulk string, the element
\* count of an array
RECURSIVE WithinLimit(_, _)
WithinLimit(v, max) ==
    CASE v.t \in {"SimpleString", "Error"} -> Len(v.s) <= max
      [] v.t = "Integer" -> Len(i64_to_string(v.i)) <= max
      [] v.t = "BulkString" -> Len(v.b) <= max
      [] v.t = "Array" ->
            Len(v.a) <= max /\ \A i \in 1..Len(v.a) : WithinLimit(v.a[i], max)
      [] OTHER -> TRUE

\* the configuration accepts every value of the stream, and the whole stream
\* fits the staging buffer
Fits ==
    /\ \A i \in 1..Len(vals) : WithinLimit(vals[i], config.max_resp_size)
    /\ Len(input) <= config.max_buffer_size

\* the offset in the stream at which the i-th value's frame ends
FrameEnd(i) == Len(EncodeAll(SubSeq(vals, 1, i)))

\* C3: while only bytes of well-formed top-level frames have been fed, in
\* any fragmentation, no call has failed, a frame whose last byte is still
\* to come has not been returned, and a frame whose last byte has been fed
\* has been returned: it is returned by the call that delivers its last
\* byte, never a later one.
C3_PromptEmission ==
    (Fits /\ pos <= FrameEnd(Len(vals))) =>
        /\ ~failed
        /\ result.k \in {"NoCall", "Ok"}
        /\ \A i \in 1..Len(vals) :
              IF pos < FrameEnd(i)
              THEN Len(emitted) < i
              ELSE Len(emitted) >= i /\ emitted[i] = vals[i]

\* C3's case: "+OK\r\n" has been fed up to its '\r' in calls that returned
\* nothing, and the parser is suspended on the line waiting for the '\n'
C3_Witness ==
    /\ vals = <<SimpleString(<<"O", "K">>)>>
    /\ pos = FrameEnd(1) - 1
    /\ buffer = <<"+", "O", "K", "\r">>
    /\ result = Ok(<<>>)
    /\ state = Some(State_Simple(3, 1, "String"))

\* ---- C4 ---------------------------------------------------------------

\* how many frames of vals have ended within the bytes fed
Ended == Cardinality({i \in 1..Len(vals) : FrameEnd(i) <= pos})

\* the values returned so far are those of the frames that have ended, in
\* the order their frames end, each once
InOrder ==
    /\ Len(emitted) >= Ended
    /\ SubSeq(emitted, 1, Ended) = SubSeq(vals, 1, Ended)
    /\ pos <= FrameEnd(Len(vals)) => Len(emitted) = Ended

\* C4 as stated: over any sequence of read calls the values returned are
\* those of the frames that have ended, in order, none twice, none skipped.
C4_AnyCalls == Fits => InOrder

\* C4, amended: over any sequence of read calls none of which has failed,
\* the values returned (within one call and across calls) are exactly the
\* values of the frames that have ended in the bytes fed, in the order in
\* which the frames end, none returned twice and none skipped.
C4_Ordering == (Fits /\ ~failed) => InOrder

\* C4's case: two different values returned by one call, in stream order
C4_Witness ==
    /\ Len(vals) = 2
    /\ vals[1] # vals[2]
    /\ ~failed
    /\ result = Ok(vals)
    /\ emitted = vals

\* ---- C5 ---------------------------------------------------------------

\* C5: whenever read returns an error, of any kind, the staging buffer is
\* empty when the call returns.
C5_ErrorClearsBuffer == result.k = "Err" => buffer = <<>>

\* C5's case: a frame suspended in an earlier call was resumed and failed
C5_Witness ==
    /\ result.k = "Err"
    /\ result.err.e = "ReadlineError"
    /\ buffer = <<>>
    /\ pos >= 2
    /\ input[pos] # "\n"
    /\ \E i \in 1..(pos - 1) : input[i] = "\r" /\ i < pos - 1

\* ---- C6 ---------------------------------------------------------------

\* the number of bytes of as_bytes(v) (of the frames vs) that must be in for
\* the first size above max to be known: the end of a simple string, error
\* or integer line longer than max, the end of the length line of a bulk
\* string longer than max, the end of the size line of an array of more
\* than max elements; 0 when no size is above max
RECURSIVE FirstOver(_, _), FirstOverAll(_, _)
FirstOverIn(v, max, header, inner) ==
    IF Len(v.a) > max THEN header
    ELSE IF inner > 0 THEN header + inner
    ELSE 0

FirstOver(v, max) ==
    CASE v.t \in {"SimpleString", "Error"} ->
            IF Len(v.s) > max THEN Len(as_bytes(v)) ELSE 0
      [] v.t = "Integer" ->
            IF Len(i64_to_string(v.i)) > max THEN Len(as_bytes(v)) ELSE 0
      [] v.t = "BulkString" ->
            IF Len(v.b) > max THEN 1 + Len(usize_to_string(Len(v.b))) + 2 ELSE 0
      [] v.t = "Array" ->
            FirstOverIn(v, max, 1 + Len(usize_to_string(Len(v.a))) + 2,
                        FirstOverAll(v.a, max))
      [] OTHER -> 0

FirstOverRest(head, first, rest) ==
    IF first > 0 THEN first
    ELSE IF rest > 0 THEN Len(as_bytes(head)) + rest
    ELSE 0

FirstOverAll(vs, max) ==
    IF vs = <<>> THEN 0
    ELSE FirstOverRest(Head(vs), FirstOver(Head(vs), max), FirstOverAll(Tail(vs), max))

\* the sizes a suspended parse has taken note of are within max
RECURSIVE StateWithin(_, _)
StateWithin(st, max) ==
    CASE st.tag = "BulkString" -> st.size.some => st.size.v <= max
      [] st.tag = "Array" ->
            /\ st.size.some => st.size.v <= max
            /\ st.elements.some =>
                  \A i \in 1..Len(st.elements.v) : WithinLimit(st.elements.v[i], max)
            /\ st.substate.some => StateWithin(st.substate.v, max)
      [] OTHER -> TRUE

\* the frame a suspended parse is working on, innermost
RECURSIVE Innermost(_)
Innermost(st) ==
    IF st.tag = "Array" /\ st.substate.some THEN Innermost(st.substate.v) ELSE st

\* the text of the simple string, error or integer line accumulated so far
Accumulated(st) == IF st.tag = "Simple" THEN st.cursor - st.start ELSE 0

\* C6 as stated, for the line text: after a call that returned Ok the text
\* of the line accumulated so far is within max_resp_size (a call that
\* brings it above the limit fails).
C6_AccumulatedText ==
    (result.k = "Ok" /\ state.some) =>
        Accumulated(Innermost(state.v)) <= config.max_resp_size

\* the call appends more than the staging buffer may hold
Overflows == Len(buffer) + (pos' - pos) > config.max_buffer_size

\* the call brings in the byte at which the first size above the limit is
\* known
Crosses(first) == first > 0 /\ pos < first /\ first <= pos'

C6_Step ==
    /\ Overflows => (result' = Err(SizeExceededError) /\ emitted' = emitted)
    /\ (~failed /\ ~Overflows /\ Crosses(FirstOverAll(vals, config.max_resp_size))) =>
            (result' = Err(SizeExceededError) /\ emitted' = emitted)
    /\ result'.k = "Ok" =>
            /\ Len(buffer') <= config.max_buffer_size
            /\ \A i \in 1..Len(result'.items) :
                  WithinLimit(result'.items[i], config.max_resp_size)
            /\ state'.some => StateWithin(state'.v, config.max_resp_size)

\* C6, amended: the sizes checked are the text of a completed simple string,
\* error or integer line, a declared bulk string length, a declared array
\* element count, and the staging buffer.  The call that completes a line
\* longer than the limit, or the length line of a bulk string or array above
\* the limit, or that brings the buffer above its limit, fails with
\* SizeExceeded and returns no value; no call returns a value, or suspends
\* with a size, above the limit.
C6_Bounds == [][C6_Step]_vars

\* C6's case: an element of an array is above the limit and the call that
\* completed its line has failed
C6_Witness ==
    /\ config.max_resp_size = SmallResp
    /\ Len(vals) = 1
    /\ vals[1].t = "Array"
    /\ Len(vals[1].a) <= SmallResp
    /\ FirstOver(vals[1], SmallResp) > 0
    /\ pos >= FirstOver(vals[1], SmallResp)
    /\ pos < Len(input)
    /\ result = Err(SizeExceededError)
    /\ emitted = <<>>

\* ---- C7 ---------------------------------------------------------------

C7_Step ==
    /\ Len(buffer') <= config.max_buffer_size
    /\ Overflows =>
            /\ buffer' = <<>>
            /\ result' = Err(SizeExceededError)
            /\ state' = state
            /\ emitted' = emitted

\* C7: after every read call the staging buffer holds at most
\* max_buffer_size bytes; a call whose appended bytes bring the buffer above
\* max_buffer_size clears it and fails with SizeExceeded with no parsing
\* done (the saved state is as it was, nothing is returned).
C7_BufferCeiling == [][C7_Step]_vars

\* C7's case: a call has overflowed the small buffer in the middle of a
\* frame
C7_Witness ==
    /\ config.max_buffer_size = SmallBuf
    /\ result = Err(SizeExceededError)
    /\ buffer = <<>>
    /\ state.some
    /\ state.v.tag = "Array"
    /\ pos > SmallBuf

\* ---- C8 ---------------------------------------------------------------

\* C8: for every sequence of read calls, on valid or invalid bytes, in any
\* fragmentation, calls after a failed call included, read never returns
\* StateError.
C8_NoStateError == ~(result.k = "Err" /\ result.err.e = "StateError")

\* C8's case: a call overflowed the buffer and left the suspended state in
\* place; a later call was routed by that state, its cursor beyond the bytes
\* now in the buffer, and returned Ok
C8_Witness ==
    /\ config.max_buffer_size = SmallBuf
    /\ failed
    /\ result.k = "Ok"
    /\ state.some
    /\ state.v.tag \in {"Simple", "BulkString", "Array"}
    /\ buffer # <<>>
    /\ Len(buffer) < state.v.cursor

\* ---- C9 ---------------------------------------------------------------

NullBytes == <<"$", "-", "1", "\r", "\n">>
NullArrayBytes == <<"*", "-", "1", "\r", "\n">>
EmptyBulkBytes == <<"$", "0", "\r", "\n", "\r", "\n">>
EmptyArrayBytes == <<"*", "0", "\r", "\n">>

\* the value each of the four byte strings is to parse to
Nulls ==
    {<<NullBytes, Null>>, <<NullArrayBytes, NullArray>>,
     <<EmptyBulkBytes, BulkString(<<>>)>>, <<EmptyArrayBytes, Array(<<>>)>>}

\* C9: Null, NullArray, the empty BulkString and the empty Array are four
\* different values with four different encodings, those of the four byte
\* strings; a stream that starts with one of the four has returned its value
\* once the last byte of it is in, and nothing before.
C9_NullDistinctness ==
    /\ pos = 0 =>
          /\ Cardinality({n[2] : n \in Nulls}) = 4
          /\ Cardinality({as_bytes(n[2]) : n \in Nulls}) = 4
          /\ \A n \in Nulls : as_bytes(n[2]) = n[1]
    /\ \A n \in Nulls :
          (Len(input) >= Len(n[1]) /\ SubSeq(input, 1, Len(n[1])) = n[1]) =>
                IF pos < Len(n[1])
                THEN emitted = <<>> /\ ~failed
                ELSE pos = Len(n[1]) => (emitted = <<n[2]>> /\ result.k = "Ok")

\* C9's case: the size line of "*0\r\n" is in and the empty array is back
C9_Witness ==
    /\ Len(input) > 4
    /\ SubSeq(input, 1, 4) = EmptyArrayBytes
    /\ pos = 4
    /\ result = Ok(<<Array(<<>>)>>)

\* ---- C10 --------------------------------------------------------------

TypeBytes == {"+", "-", ":", "$", "*"}

\* the parser is at the start of a frame: nothing of it is in the buffer
AtFrameStart ==
    IF state.some
    THEN Innermost(state.v).tag = "GetType" /\ Innermost(state.v).cursor = Len(buffer)
    ELSE buffer = <<>>

\* the state a type byte at offset c of the buffer selects
Selected(token, c) ==
    CASE token \in {"+", "-", ":"} ->
            [tag |-> "Simple", cursor |-> c + 1, start |-> c + 1,
             simple_type |-> CASE token = "+" -> "String"
                               [] token = "-" -> "Error"
                               [] token = ":" -> "Integer"]
      [] token = "$" ->
            [tag |-> "BulkString", cursor |-> c + 1, start |-> c + 1, size |-> None]
      [] token = "*" ->
            [tag |-> "Array", cursor |-> c + 1, start |-> c + 1, size |-> None,
             elements |-> None, substate |-> None]

\* the types of value a type byte can give
Kinds(token) ==
    CASE token = "+" -> {"SimpleString"}
      [] token = "-" -> {"Error"}
      [] token = ":" -> {"Integer"}
      [] token = "$" -> {"BulkString", "Null"}
      [] token = "*" -> {"Array", "NullArray"}
      [] OTHER -> {}

\* what may stand between the well-formed frames and a frame start: nothing,
\* or the opening of an array up to the start of an element
Openers ==
    {<<>>, <<"*", "1", "\r", "\n">>, <<"*", "2", "\r", "\n", ":", "7", "\r", "\n">>}

\* offset from is a frame start of the stream, at top level or in an array
FrameStartAt(from, op) ==
    /\ from = FrameEnd(Len(vals)) + Len(op)
    /\ from < Len(input)
    /\ SubSeq(input, FrameEnd(Len(vals)) + 1, from) = op

\* the call brings the byte at a frame start that follows the well-formed
\* frames, which end at offset end, and an opener: a byte outside the type
\* bytes there makes the call fail with TypeTokenError of that byte
C10_Brought(end) ==
    \A op \in Openers :
        (/\ end + Len(op) >= pos
         /\ end + Len(op) < pos'
         /\ FrameStartAt(end + Len(op), op)
         /\ input[end + Len(op) + 1] \notin TypeBytes
         /\ Fits) =>
            result' = Err(TypeTokenError(input[end + Len(op) + 1]))

C10_Step ==
    /\ (AtFrameStart /\ pos' > pos /\ ~Overflows /\ input[pos + 1] \notin TypeBytes) =>
            result' = Err(TypeTokenError(input[pos + 1]))
    /\ (AtFrameStart /\ pos' = pos + 1 /\ ~Overflows /\ input[pos + 1] \in TypeBytes) =>
            /\ result' = Ok(<<>>)
            /\ Innermost(state'.v) = Selected(input[pos + 1], Len(buffer))
    /\ (~failed /\ pos' > pos) => LET end == FrameEnd(Len(vals)) IN C10_Brought(end)
    /\ (~failed' /\ Len(emitted') >= 1) => emitted'[1].t \in Kinds(input[1])

\* C10: a byte outside the five type bytes at the start of a frame, at top
\* level or in an array, at the start of a call or in the middle of one,
\* makes the call that brings it fail with TypeTokenError of that byte; a
\* type byte selects the state of its kind of frame, and the first value of
\* a stream is of the kind its type byte selects.
C10_TypeByte == [][C10_Step]_vars

\* C10's case: '#' where an element of an array was to start
C10_Witness ==
    /\ \E op \in Openers \ {<<>>} :
          /\ FrameStartAt(pos - 1, op)
          /\ input[pos] = "#"
    /\ result = Err(TypeTokenError("#"))

\* ---- C11 --------------------------------------------------------------

\* the first line of the stream: its type byte is input[1], its text ends
\* before the first '\r', and the line is complete when a '\n' follows
FirstCR ==
    IF contains(input, "\r")
    THEN CHOOSE i \in 1..Len(input) : input[i] = "\r" /\ \A j \in 1..(i - 1) : input[j] # "\r"
    ELSE 0

LineDone == FirstCR > 1 /\ FirstCR < Len(input) /\ input[FirstCR + 1] = "\n"

LineText == SubSeq(input, 2, FirstCR - 1)

\* the number of bytes of the stream up to the end of its first line
LineEnd == FirstCR + 1

\* one or more decimal digits
IsDigits(text) == text # <<>> /\ \A i \in 1..Len(text) : IsDigit(text[i])

\* one or more decimal digits with an optional leading '-'
IsDecimal(text) ==
    IF text # <<>> /\ text[1] = "-" THEN IsDigits(Tail(text)) ELSE IsDigits(text)

\* the call brings in the last byte of the first line, no call has failed
\* and the buffer holds
CompletesLine == LineDone /\ ~failed /\ ~Overflows /\ pos < LineEnd /\ LineEnd <= pos'

\* what the call that completes a '$' or '*' line of length n leaves
C11_Length(n) ==
    CASE n.neg /\ n.mag = <<1>> ->
            /\ pos' = LineEnd =>
                  /\ result' = Ok(<<IF input[1] = "$" THEN Null ELSE NullArray>>)
                  /\ buffer' = <<>>
            /\ (result'.k = "Ok" /\ Len(result'.items) = 1) =>
                  /\ result'.items[1] = IF input[1] = "$" THEN Null ELSE NullArray
                  /\ buffer' = SubSeq(input, LineEnd + 1, pos')
      [] n.neg /\ n.mag # <<1>> ->
            /\ result' = Err(ReadsizeError(n))
            /\ emitted' = <<>>
      [] OTHER ->
            (i64_to_usize(n) <= config.max_resp_size /\ pos' = LineEnd) =>
                CASE input[1] = "$" ->
                        /\ result' = Ok(<<>>)
                        /\ state' = Some(State_BulkString(LineEnd, 1, Some(i64_to_usize(n))))
                  [] i64_to_usize(n) = 0 ->
                        result' = Ok(<<Array(<<>>)>>)
                  [] OTHER ->
                        /\ result' = Ok(<<>>)
                        /\ state' = Some(State_Array(LineEnd, 1, Some(i64_to_usize(n)),
                                                     Some(<<>>),
                                                     Some(State_GetType(LineEnd))))

C11_Parsed(parsed) == parsed.ok => C11_Length(parsed.v)

C11_Step ==
    (/\ input # <<>>
     /\ input[1] \in {"$", "*"}
     /\ CompletesLine
     /\ IsDecimal(LineText)) => C11_Parsed(parse_i64(LineText))

\* C11: the call that completes the length line of a '$' or '*' frame
\* returns Null or NullArray for the length -1, with exactly the line taken
\* off the buffer; fails with ReadsizeError of the length for a length below
\* -1; and for a length of 0 or more within the limit goes on to the payload
\* or the elements with that size.
C11_LengthPrefix == [][C11_Step]_vars

\* C11's case: an array length line of i64::MIN has been refused with the
\* length in the error
C11_Witness ==
    /\ input # <<>>
    /\ input[1] = "*"
    /\ LineDone
    /\ pos = LineEnd
    /\ result = Err(ReadsizeError(I64(TRUE, I64MinMag)))

\* ---- C12 --------------------------------------------------------------

\* the frame starts of the stream that may open a malformed line: the end of
\* the well-formed frames, at top level or behind the opening of an array
LineStarts ==
    {FrameEnd(Len(vals)) + Len(op) :
        op \in {o \in Openers : FrameStartAt(FrameEnd(Len(vals)) + Len(o), o)}}

\* the index in the stream of the first '\r' of the line of the frame that
\* starts at offset from, 0 when there is none
CRFrom(from) ==
    IF \E i \in (from + 2)..Len(input) : input[i] = "\r"
    THEN CHOOSE i \in (from + 2)..Len(input) :
            input[i] = "\r" /\ \A j \in (from + 2)..(i - 1) : input[j] # "\r"
    ELSE 0

\* the configuration accepts every value at the head of the stream
ValsWithin == \A i \in 1..Len(vals) : WithinLimit(vals[i], config.max_resp_size)

\* the call brings in the byte after the '\r' at index cr
BringsAfter(cr) ==
    cr > 0 /\ cr < Len(input) /\ ~failed /\ ~Overflows /\ pos < cr + 1 /\ cr + 1 <= pos'

\* what the call that brings the byte after the line's '\r' returns, when
\* that byte is not '\n' or the text holds a '\n'
C12_Line(from, cr) ==
    BringsAfter(cr) =>
        IF input[cr + 1] # "\n"
        THEN /\ result'.k = "Err"
             /\ ValsWithin =>
                   (result'.err.e = "ReadlineError" /\ result'.err.msg.why = "expected_lf")
             /\ emitted' = emitted
        ELSE contains(SubSeq(input, from + 2, cr - 1), "\n") =>
                /\ result'.k = "Err"
                /\ (ValsWithin /\ Utf8Valid(SubSeq(input, from + 2, cr - 1))) =>
                      result'.err = ReadlineError([why |-> "premature_lf"])
                /\ emitted' = emitted

\* no SimpleString or Error text in v, at any depth, holds '\r' or '\n'
RECURSIVE NoCRLF(_)
NoCRLF(v) ==
    CASE v.t \in {"SimpleString", "Error"} -> ~contains(v.s, "\r") /\ ~contains(v.s, "\n")
      [] v.t = "Array" -> \A i \in 1..Len(v.a) : NoCRLF(v.a[i])
      [] OTHER -> TRUE

C12_Step ==
    /\ (~failed /\ pos' > pos) =>
          \A from \in LineStarts :
              input[from + 1] \in TypeBytes =>
                  LET cr == CRFrom(from) IN C12_Line(from, cr)
    /\ \A i \in 1..Len(emitted') : NoCRLF(emitted'[i])

C13_Refused(text) ==
    (/\ input # <<>>
     /\ input[1] \in {":", "$", "*"}
     /\ CompletesLine
     /\ ~text) => (result'.k = "Err" /\ emitted' = <<>>)

\* C13 as stated: the text of a ':' frame or of a '$' or '*' length line
\* that is not one or more decimal digits with an optional leading '-'
\* makes the call that completes the line fail and return no value.
C13_IntegerSyntax == [][C13_Refused(IsDecimal(LineText))]_vars

\* one or more decimal digits with an optional leading '-' or '+'
IsSignedDecimal(text) ==
    IF text # <<>> /\ text[1] \in {"-", "+"} THEN IsDigits(Tail(text)) ELSE IsDigits(text)

\* C13, what the parser does: the text is refused when it is not one or
\* more decimal digits with an optional leading '-' or '+'.
C13_SignedSyntax == [][C13_Refused(IsSignedDecimal(LineText))]_vars

\* ---- C14 --------------------------------------------------------------

\* the number a decimal text denotes: whether it is below zero, and its
\* magnitude in digits without leading zeros
Negative(text) == text[1] = "-"

Magnitude(text) ==
    StripZeros([i \in 1..Len(IF Negative(text) THEN Tail(text) ELSE text) |->
                    DigitVal((IF Negative(text) THEN Tail(text) ELSE text)[i])])

\* -2^63 <= the number <= 2^63 - 1
InRange(neg, mag) == MagLeq(mag, IF neg THEN I64MinMag ELSE I64MaxMag)

\* what the call that completes a ':' line denoting (neg, mag) returns
C14_Number(neg, mag) ==
    IF InRange(neg, mag)
    THEN (Len(LineText) <= config.max_resp_size /\ result'.k = "Ok") =>
            /\ Len(result'.items) >= 1
            /\ result'.items[1] = Integer(I64(neg /\ mag # <<0>>, mag))
    ELSE result'.k = "Err" /\ emitted' = <<>>

C14_Step ==
    (/\ input # <<>>
     /\ input[1] = ":"
     /\ CompletesLine
     /\ IsDecimal(LineText)) =>
        /\ C14_Number(Negative(LineText), Magnitude(LineText))
        /\ (Len(LineText) <= config.max_resp_size /\ pos' = LineEnd) =>
              (result'.k = "Ok" <=> InRange(Negative(LineText), Magnitude(LineText)))

\* C14: the call that completes a ':' line whose decimal text denotes a
\* number outside -2^63 .. 2^63 - 1 fails and returns nothing; a text in
\* range, within the size limit, gives the Integer of exactly that number,
\* -2^63 and 2^63 - 1 included.
C14_IntegerRange == [][C14_Step]_vars

\* C14's case: ":9223372036854775808\r\n", one above the maximum, has been
\* refused
C14_Witness ==
    /\ input = <<":">> \o Decimal(I64MinMag) \o CRLF
    /\ pos = Len(input)
    /\ result.k = "Err"
    /\ result.err.e = "ParseIntError"
    /\ emitted = <<>>

\* ---- C15 --------------------------------------------------------------

C15_Step ==
    /\ (result.k = "Ok" /\ pos' = pos) =>
            /\ result' = Ok(<<>>)
            /\ buffer' = buffer
            /\ state' = state
    /\ result' = Ok(<<>>) =>
            buffer' = buffer \o SubSeq(input, pos + 1, pos')

\* C15: a read of no bytes that follows a read that returned Ok returns Ok
\* with an empty list and leaves the buffer and the saved state as they
\* were, each time it is made; a read that returns an empty list leaves the
\* buffer longer by exactly the bytes it was given.
C15_EmptyFeed == [][C15_Step]_vars

\* C15's case: a value has been returned and a read of no bytes has followed
\* (no other read returns nothing and leaves the buffer empty)
C15_Witness ==
    /\ ~failed
    /\ emitted # <<>>
    /\ result = Ok(<<>>)
    /\ buffer = <<>>
    /\ state = Some(State_GetType(0))

\* ---- C16 --------------------------------------------------------------

\* the five kinds of the spec as the code names them; the parse error of
\* i64 stands for the invalid-integer kind, which ParserError does not have
WireErrors ==
    {"ReadlineError", "ReadsizeError", "TypeTokenError", "ParseIntError",
     "SizeExceededError"}

\* the call completes the first line of the stream, which is clean text that
\* does not parse as a 64-bit integer
C16_BadNumber ==
    /\ input # <<>>
    /\ CompletesLine
    /\ Utf8Valid(LineText)
    /\ ~contains(LineText, "\n")
    /\ ~parse_i64(LineText).ok

C16_Step ==
    /\ result'.k = "Err" => result'.err.e \in WireErrors
    /\ (C16_BadNumber /\ input[1] \in {"$", "*"}) =>
            (result'.k = "Err" /\ result'.err.e = "ReadsizeError")
    /\ (C16_BadNumber /\ input[1] = ":" /\ Len(LineText) <= config.max_resp_size) =>
            (result'.k = "Err" /\ result'.err.e = "ParseIntError")

\* C16 as stated: every error read returns is of one of the five kinds; a
\* length line that does not parse as a 64-bit integer gives the
\* invalid-size error, and a ':' line that does not parse gives the
\* invalid-integer error.
C16_Taxonomy == [][C16_Step]_vars

\* the kinds of error read does return
ErrorsReturned == WireErrors \cup {"Utf8Error"}

C16_ActualStep ==
    /\ result'.k = "Err" => result'.err.e \in ErrorsReturned
    /\ (C16_BadNumber /\ (input[1] \in {"$", "*"} \/ Len(LineText) <= config.max_resp_size)
                      /\ input[1] \in {":", "$", "*"}) =>
            (result'.k = "Err" /\ result'.err.e = "ParseIntError")

\* C16, what the parser does: the errors are those of ParserError but
\* StateError, and the parse error of i64 and the UTF-8 error of the line
\* text passed on as they are; a length line or a ':' line that does not
\* parse gives the parse error of i64.
C16_Actual == [][C16_ActualStep]_vars

\* a line that is not UTF-8 has been refused with the error of the decoder
Utf8Refused == result = Err(Utf8Error)

\* ---- C17 --------------------------------------------------------------

\* the decimal digits of a natural number, most significant first
RECURSIVE Pow10(_)
Pow10(k) == IF k = 0 THEN 1 ELSE 10 * Pow10(k - 1)

DigitCount(n) == CHOOSE k \in 1..9 : n < Pow10(k) /\ (k = 1 \/ n >= Pow10(k - 1))

RefNat(n) == [i \in 1..DigitCount(n) |-> DigitChars[((n \div Pow10(DigitCount(n) - i)) % 10) + 1]]

\* the reference encoding of the spec
RECURSIVE RefEncode(_), RefEncodeAll(_)
RefEncode(v) ==
    CASE v.t = "SimpleString" -> <<"+">> \o v.s \o <<"\r", "\n">>
      [] v.t = "Error" -> <<"-">> \o v.s \o <<"\r", "\n">>
      [] v.t = "Integer" ->
            <<":">> \o (IF v.i.neg THEN <<"-">> ELSE <<>>) \o Decimal(v.i.mag)
                \o <<"\r", "\n">>
      [] v.t = "BulkString" ->
            <<"$">> \o RefNat(Len(v.b)) \o <<"\r", "\n">> \o v.b \o <<"\r", "\n">>
      [] v.t = "Array" -> <<"*">> \o RefNat(Len(v.a)) \o <<"\r", "\n">> \o RefEncodeAll(v.a)
      [] v.t = "Null" -> <<"$", "-", "1", "\r", "\n">>
      [] v.t = "NullArray" -> <<"*", "-", "1", "\r", "\n">>

RefEncodeAll(vs) ==
    IF vs = <<>> THEN <<>> ELSE RefEncode(Head(vs)) \o RefEncodeAll(Tail(vs))

\* values the guarded constructors refuse, which as_bytes encodes all the same
Unguarded == {SimpleString(t) : t \in Texts} \cup {Error(t) : t \in Texts}

\* C17: as_bytes(v) is the reference encoding of v, for the values at the
\* head of the stream (every kind, nested arrays, two-digit lengths, the
\* ends of the integer range) and for SimpleString and Error values of any
\* text (before the first call of each run); the stream built with as_bytes
\* starts with the reference encodings of its values.
C17_Encoding ==
    /\ \A i \in 1..Len(vals) : as_bytes(vals[i]) = RefEncode(vals[i])
    /\ pos = 0 => \A v \in Unguarded : as_bytes(v) = RefEncode(v)
    /\ LET wire == RefEncodeAll(vals)
       IN  Len(input) >= Len(wire) /\ SubSeq(input, 1, Len(wire)) = wire

\* C17's case: the stream of an array of an error and a null array, whose
\* elements follow the count with nothing after them
C17_Witness ==
    /\ vals = <<Array(<<Error(<<"e">>), NullArray>>), SimpleString(<<"a">>)>>
    /\ Len(input) >= 18
    /\ SubSeq(input, 1, 18) =
          <<"*", "2", "\r", "\n", "-", "e", "\r", "\n", "*", "-", "1", "\r", "\n",
            "+", "a", "\r", "\n", "#">>
    /\ pos = 17
    /\ emitted = vals

\* ---- C18 --------------------------------------------------------------

HasCRLF(text) == \E i \in 1..Len(text) : text[i] \in {"\r", "\n"}

\* what a guarded constructor is to return for text: an error and no value,
\* or the variant holding the text
Guarded(made, text, variant) ==
    IF HasCRLF(text) THEN made = [ok |-> FALSE] ELSE made = [ok |-> TRUE, v |-> variant]

\* C18: simple_string and error return an error and no value for a text
\* with '\r' or '\n' in it and the variant holding the text otherwise;
\* integer, bulk_string and array return their variant for every argument,
\* a blob with CRLF in it included (before the first call of each run); so
\* no value built through them at the head of the stream holds a text with
\* '\r' or '\n'.
C18_Guards ==
    /\ pos = 0 =>
          /\ \A t \in Texts :
                /\ Guarded(simple_string(t), t, [t |-> "SimpleString", s |-> t])
                /\ Guarded(error(t), t, [t |-> "Error", s |-> t])
          /\ \A i \in Ints : integer(i) = [t |-> "Integer", i |-> i]
          /\ \A b \in Blobs : bulk_string(b) = [t |-> "BulkString", b |-> b]
          /\ \A a \in SeqsUpTo(Atoms, 1) : array(a) = [t |-> "Array", a |-> a]
    /\ \A i \in 1..Len(vals) : NoCRLF(vals[i])

\* C18's case: the stream is that of a value simple_string built, and the
\* texts with '\r' or '\n' have been refused
C18_Witness ==
    /\ simple_string(<<"O", "K">>).ok
    /\ vals = <<simple_string(<<"O", "K">>).v>>
    /\ input = <<"+", "O", "K", "\r", "\n">>
    /\ ~simple_string(<<"a", "\r">>).ok
    /\ ~error(<<"\n">>).ok
    /\ pos = 0

\* ---- C19 --------------------------------------------------------------

\* one is what a single read of the bytes fed so far returns on a fresh
\* parser: when it is Ok, no call of the chunked feed has failed and the
\* values returned are the same
C19_Accepted(one) ==
    one.k = "Ok" =>
        /\ ~failed
        /\ result.k \in {"NoCall", "Ok"}
        /\ emitted = one.items

\* C19: for any configuration and any bytes B that a single read on a fresh
\* parser accepts with Ok(L), every feed of B in chunks to a fresh parser
\* has every call return Ok, and the lists returned make up L.
C19_AcceptedInput == LET one == OneRead IN C19_Accepted(one)

C19_Case(one) == one.k = "Ok" /\ emitted = one.items /\ one.items # <<>>

\* C19's case: fourteen bytes in over several calls, the first value is
\* back and the array after it is suspended on its second element
C19_Witness ==
    /\ vals = <<Integer(I64(TRUE, <<1, 2>>)), Array(<<Error(<<"e">>), NullArray>>)>>
    /\ pos = 14
    /\ ~failed
    /\ buffer = <<"*", "2", "\r", "\n", "-", "e", "\r", "\n">>
    /\ state.some
    /\ state.v.tag = "Array"
    /\ state.v.elements = Some(<<Error(<<"e">>)>>)
    /\ C19_Case(OneRead)

\* ---- C20 --------------------------------------------------------------

\* the bytes fed so far that follow offset e of the stream
FedAfter(e) == SubSeq(input, e + 1, pos)

\* the values returned that are not arrays or bulk payloads: their frame is
\* one line
OneLineTags == {"SimpleString", "Error", "Integer", "Null", "NullArray"}

\* the staging buffer is what has been fed after the last byte of the last
\* value returned: after the frames of vals returned so far, or after the
\* first line when the stream is one line frame and what follows it; in
\* every case it is the end of the bytes fed, and when it is not empty it
\* starts with the type byte of the frame in flight, on which the parser is
\* suspended
Residual ==
    /\ Len(emitted) <= Len(vals) => buffer = FedAfter(FrameEnd(Len(emitted)))
    /\ (vals = <<>> /\ Len(emitted) = 1 /\ emitted[1].t \in OneLineTags) =>
            buffer = FedAfter(LineEnd)
    /\ Len(buffer) <= pos
    /\ buffer = FedAfter(pos - Len(buffer))
    /\ buffer # <<>> =>
            /\ buffer[1] \in TypeBytes
            /\ state.some
            /\ state.v.cursor <= Len(buffer)

\* C20 as stated: after every read call that returns Ok, the staging buffer
\* is exactly the bytes fed so far that follow the last byte of the last
\* value returned.
C20_EveryOk == result.k = "Ok" => Residual

\* C20, amended: after every read call that returns Ok on a parser none of
\* whose calls has failed, the staging buffer is exactly the bytes fed so
\* far that follow the last byte of the last value returned, so the frame
\* in flight starts at buffer index 0; values completed by a call are
\* returned by it while the prefix of the next frame stays in the buffer.
C20_ResidualBuffer == (result.k = "Ok" /\ ~failed) => Residual

\* C20's case (tests::simple_string::valid_remainder): one call has ended
\* the first frame and brought the first bytes of the next; the value is
\* returned and the first byte of the next frame is kept
C20_Witness ==
    /\ vals = <<Integer(I64(TRUE, <<1, 2>>)), Array(<<Error(<<"e">>), NullArray>>)>>
    /\ pos = 7
    /\ ~failed
    /\ result = Ok(<<Integer(I64(TRUE, <<1, 2>>))>>)
    /\ buffer = <<"*">>
    /\ state.some

\* ---- C21 --------------------------------------------------------------

\* the streams of raw bytes, before the first call: their prefixes are the
\* buffers the byte readers are applied to, at every cursor
RawStream == pos = 0 /\ vals = <<>> /\ config = RespConfig_default

\* the stream opens with a bulk string whose length line is one or two
\* digits
BulkFirst ==
    /\ input # <<>>
    /\ input[1] = "$"
    /\ LineDone
    /\ IsDigits(LineText)
    /\ Len(LineText) <= 2

\* the size its length line declares
DeclaredSize == i64_to_usize(parse_i64(LineText).v)

\* "\r\n" stands in seq behind n bytes that start at offset from
TerminatedAt(seq, from, n) ==
    /\ Len(seq) >= from + n + 2
    /\ seq[from + n + 1] = "\r"
    /\ seq[from + n + 2] = "\n"

\* readbuffer on buf at cursor for size n returns Some exactly when the
\* condition complete holds, with the n bytes at the cursor and the cursor
\* behind the terminator
ReadbufferContract(buf, cursor, n, complete) ==
    LET got == readbuffer(buf, cursor, n)
    IN  /\ got.some <=> complete
        /\ got.some =>
              /\ got.v.data = SubSeq(buf, cursor + 1, cursor + n)
              /\ got.v.end = cursor + n + 2

\* the first value is back exactly when the condition complete holds; it is
\* the bulk string of the n bytes behind the length line, and the call that
\* returns it alone leaves what was fed behind the terminator
BulkContract(n, complete) ==
    /\ Len(emitted) >= 1 <=> complete
    /\ Len(emitted) >= 1 => emitted[1] = BulkString(SubSeq(input, LineEnd + 1, LineEnd + n))
    /\ (Len(emitted) = 1 /\ result.k = "Ok") => buffer = FedAfter(LineEnd + n + 2)

\* C21 as stated: readbuffer returns Some, and the parser emits the
\* BulkString, if and only if the buffer holds the n payload bytes followed
\* by "\r\n" at the cursor; the payload is exactly those n bytes and the
\* next cursor is cursor + n + 2.
C21_Terminator ==
    /\ RawStream =>
          \A len \in 0..Len(input) : \A cursor \in 0..len : \A n \in 0..MaxWidth :
              ReadbufferContract(SubSeq(input, 1, len), cursor, n,
                                 TerminatedAt(SubSeq(input, 1, len), cursor, n))
    /\ (BulkFirst /\ ~failed /\ DeclaredSize <= config.max_resp_size) =>
          BulkContract(DeclaredSize, TerminatedAt(Fed, LineEnd, DeclaredSize))

\* C21, amended: readbuffer returns Some, and the parser emits the
\* BulkString, if and only if the buffer holds n + 2 bytes from the cursor
\* on, whatever the last two are; the payload is exactly the first n of
\* them and the next cursor is cursor + n + 2.  readbuffer is applied to
\* every prefix of every raw stream, the parser runs on every stream.
C21_LengthOnly ==
    /\ RawStream =>
          \A len \in 0..Len(input) : \A cursor \in 0..len : \A n \in 0..MaxWidth :
              ReadbufferContract(SubSeq(input, 1, len), cursor, n, len >= cursor + n + 2)
    /\ (BulkFirst /\ ~failed /\ DeclaredSize <= config.max_resp_size) =>
          BulkContract(DeclaredSize, pos >= LineEnd + DeclaredSize + 2)

\* C21's case: a bulk string has been returned whose payload is followed by
\* "XY"
C21_Unterminated ==
    /\ BulkFirst
    /\ ~failed
    /\ emitted = <<BulkString(<<"a", "b">>)>>
    /\ SubSeq(input, 1, 8) = <<"$", "2", "\r", "\n", "a", "b", "X", "Y">>

\* ---- C22 --------------------------------------------------------------

\* the index in buf of the first '\r' at or after cursor, -1 when there is
\* none
FirstCRFrom(buf, cursor) ==
    IF \E i \in cursor..(Len(buf) - 1) : buf[i + 1] = "\r"
    THEN CHOOSE i \in cursor..(Len(buf) - 1) :
            buf[i + 1] = "\r" /\ \A j \in cursor..(i - 1) : buf[j + 1] # "\r"
    ELSE -1

\* the bytes of buf from index a up to index b, b not included
Between(buf, a, b) == [i \in 1..(b - a) |-> buf[a + i]]

\* the byte stands in buf at an index from a up to b, b not included
HoldsByte(buf, a, b, byte) == \E i \in a..(b - 1) : buf[i + 1] = byte

\* a scan that returned None resumes at or before every '\r' at or after
\* the cursor it started from
NoneSkipsNoCR(buf, cursor, got) ==
    got.k = "None" =>
        \A i \in cursor..(Len(buf) - 1) : buf[i + 1] = "\r" => got.cursor <= i

\* the contract as stated, for the first '\r' at index cr
ReadlineStated(buf, cursor, start, cr, got) ==
    /\ CASE cr = -1 -> got = [k |-> "None", cursor |-> Len(buf)]
         [] cr = Len(buf) - 1 -> got = [k |-> "None", cursor |-> Len(buf) - 1]
         [] buf[cr + 2] = "\n" ->
                got = [k |-> "Line", line |-> Between(buf, start, cr), cursor |-> cr + 2]
         [] OTHER -> TRUE
    /\ NoneSkipsNoCR(buf, cursor, got)

\* the contract with the failures of a complete line: a text that is not
\* UTF-8, a text holding '\n', a '\r' followed by another byte than '\n'
ReadlineActual(buf, cursor, start, cr, got) ==
    /\ CASE cr = -1 -> got = [k |-> "None", cursor |-> Len(buf)]
         [] cr = Len(buf) - 1 -> got = [k |-> "None", cursor |-> Len(buf) - 1]
         [] buf[cr + 2] = "\n" ->
                (CASE HoldsByte(buf, start, cr, "xFF") -> got = Err(Utf8Error)
                   [] HoldsByte(buf, start, cr, "\n") ->
                        got = Err(ReadlineError([why |-> "premature_lf"]))
                   [] OTHER ->
                        got = [k |-> "Line", line |-> Between(buf, start, cr),
                               cursor |-> cr + 2])
         [] OTHER -> got.k = "Err" /\ got.err.e = "ReadlineError"
    /\ NoneSkipsNoCR(buf, cursor, got)

\* the scan position a suspended line holds: the end of the buffer, or its
\* last byte when that is a '\r'; no '\r' before it is left unexamined
SuspendedScan(st) ==
    st.tag = "Simple" =>
        /\ st.cursor = IF buffer # <<>> /\ buffer[Len(buffer)] = "\r"
                       THEN Len(buffer) - 1 ELSE Len(buffer)
        /\ \A i \in st.start..(st.cursor - 1) : buffer[i + 1] # "\r"

\* C22 as stated: for every buffer and start <= cursor <= len, readline
\* returns Line{buf[start..cr], cr + 2} when the first '\r' at or after the
\* cursor is at cr and is followed by '\n', None{len} when there is no '\r'
\* and None{len - 1} when the first '\r' is the last byte, so that a
\* resumed scan never skips an unexamined '\r'.
C22_Contract ==
    /\ RawStream =>
          \A n \in 0..Len(input) : \A cursor \in 0..n : \A start \in 0..cursor :
              LET buf == SubSeq(input, 1, n)
                  cr == FirstCRFrom(buf, cursor)
                  got == readline(buf, cursor, start)
              IN  ReadlineStated(buf, cursor, start, cr, got)
    /\ (~failed /\ state.some) => SuspendedScan(Innermost(state.v))

\* C22, amended: as stated, but Line is returned only when the text
\* buf[start..cr] is valid UTF-8 and holds no '\n'; otherwise, and when the
\* byte after the '\r' is not '\n', readline fails.
C22_ContractWithFailures ==
    /\ RawStream =>
          \A n \in 0..Len(input) : \A cursor \in 0..n : \A start \in 0..cursor :
              LET buf == SubSeq(input, 1, n)
                  cr == FirstCRFrom(buf, cursor)
                  got == readline(buf, cursor, start)
              IN  ReadlineActual(buf, cursor, start, cr, got)
    /\ (~failed /\ state.some) => SuspendedScan(Innermost(state.v))

\* C22's case: the line "+OK" is suspended on its '\r', which is the last
\* byte of the buffer and will be scanned again
C22_Witness ==
    /\ input = <<"+", "O", "K", "\r", "\n">>
    /\ buffer = <<"+", "O", "K", "\r">>
    /\ ~failed
    /\ state = Some(State_Simple(3, 1, "String"))
    /\ readline(buffer, 3, 1) = [k |-> "None", cursor |-> 3]
    /\ readline(input, 3, 1) = [k |-> "Line", line |-> <<"O", "K">>, cursor |-> 5]

\* ---- C23 --------------------------------------------------------------

\* the buffer offset at which the frame of a child state starts
ElementStart(sub) == IF sub.tag = "GetType" THEN sub.cursor ELSE sub.start - 1

\* a saved Array state with a known size holds fewer elements than the
\* size and the state of the element being parsed, which starts at the
\* array's cursor; before the size is known it holds neither
RECURSIVE ArrayStateOK(_)
ArrayStateOK(st) ==
    st.tag = "Array" =>
        IF st.size.some
        THEN /\ st.elements.some
             /\ Len(st.elements.v) < st.size.v
             /\ st.substate.some
             /\ ElementStart(st.substate.v) = st.cursor
             /\ ArrayStateOK(st.substate.v)
        ELSE ~st.elements.some /\ ~st.substate.some

\* the bytes of the count line of array v
CountLine(v) == <<"*">> \o RefNat(Len(v.a)) \o <<"\r", "\n">>

\* the saved state st is that of value v, whose frame starts at offset base
\* of the buffer: an Array state with a known size has the size v declares
\* and the elements of v parsed so far, in wire order, and its cursor is
\* behind their frames, where the state of the next element starts
RECURSIVE StateOf(_, _, _)
StateOf(st, v, base) ==
    (st.tag = "Array" /\ st.size.some) =>
        /\ v.t = "Array"
        /\ st.start = base + 1
        /\ st.size.v = Len(v.a)
        /\ Len(st.elements.v) < Len(v.a)
        /\ st.elements.v = SubSeq(v.a, 1, Len(st.elements.v))
        /\ st.cursor = base + Len(CountLine(v)) + Len(RefEncodeAll(st.elements.v))
        /\ StateOf(st.substate.v, v.a[Len(st.elements.v) + 1], st.cursor)

\* the stream opens with an array whose count line is one or two digits
ArrayFirst ==
    /\ input # <<>>
    /\ input[1] = "*"
    /\ LineDone
    /\ IsDigits(LineText)
    /\ Len(LineText) <= 2

\* C23: the array that opens a stream is returned only with exactly the
\* number of elements its count line declares, and the arrays returned are
\* those of the stream, elements in wire order at every depth, in every
\* fragmentation; every saved Array state with a known size, after calls
\* that failed too, holds fewer elements than the size, with its cursor at
\* the start of the element being parsed.
C23_ArrayAssembly ==
    /\ state.some => ArrayStateOK(state.v)
    /\ ~failed =>
          /\ (ArrayFirst /\ Len(emitted) >= 1 /\ emitted[1].t = "Array") =>
                Len(emitted[1].a) = DeclaredSize
          /\ \A i \in 1..Len(emitted) : i <= Len(vals) => emitted[i] = vals[i]
          /\ (state.some /\ Len(emitted) < Len(vals)) =>
                StateOf(state.v, vals[Len(emitted) + 1], 0)

\* C23's case: tests::complex_nested suspended in its third element, an
\* array of which two elements are in, behind two finished elements of the
\* outer array
C23_Witness ==
    /\ vals = <<ComplexNested>>
    /\ ~failed
    /\ state.some
    /\ state.v.tag = "Array"
    /\ state.v.elements = Some(SubSeq(ComplexNested.a, 1, 2))
    /\ state.v.substate.v.tag = "Array"
    /\ state.v.substate.v.elements =
          Some(<<SimpleString(<<"t", "e", "s", "t">>), Error(<<"t", "e", "s", "t", "3">>)>>)
    /\ result = Ok(<<>>)

\* ---- C24 --------------------------------------------------------------

\* the number of magnitude mag is above the limit max
AboveLimit(mag, max) == Len(mag) > ManyDigits \/ MagValue(mag) > max

\* the text is a length in the 64-bit range that is above the limit
DeclaresTooMuch(text) ==
    /\ IsDigits(text)
    /\ InRange(FALSE, Magnitude(text))
    /\ AboveLimit(Magnitude(text), config.max_resp_size)

\* the call that completes the length line of the '$' or '*' frame at
\* offset from, whose '\r' is at index cr, fails with SizeExceededError and
\* returns nothing when the length is above the limit
C24_Line(from, cr) ==
    (/\ input[from + 1] \in {"$", "*"}
     /\ BringsAfter(cr)
     /\ input[cr + 1] = "\n"
     /\ DeclaresTooMuch(SubSeq(input, from + 2, cr - 1))) =>
        /\ result' = Err(SizeExceededError)
        /\ emitted' = emitted

C24_Step ==
    /\ (~failed /\ pos' > pos /\ ValsWithin) =>
          \A from \in LineStarts : LET cr == CRFrom(from) IN C24_Line(from, cr)
    /\ \A i \in 1..Len(emitted') : WithinLimit(emitted'[i], config.max_resp_size)

\* C24: a bulk string or an array, at top level or in an array, whose
\* length line declares more than max_resp_size makes the call that
\* completes the line fail with SizeExceededError, whether or not bytes
\* follow the line; and every value returned has its text lengths, bulk
\* lengths and element counts within max_resp_size, at every depth.
C24_EarlyRejection == [][C24_Step]_vars

\* C24's case: the count line of an array inside an array declares 7
\* elements under a limit of SmallResp, and the call that ended the line has
\* failed with nothing behind the line
C24_Witness ==
    /\ config.max_resp_size = SmallResp
    /\ input = <<"*", "1", "\r", "\n", "*", "7", "\r", "\n">>
    /\ pos = Len(input)
    /\ result = Err(SizeExceededError)
    /\ emitted = <<>>

\* ---- C25 --------------------------------------------------------------

Diverged == [k |-> "Diverged"]

\* the loop of read run for at most fuel iterations from parser p with the
\* values items in hand: an iteration that gets a value must leave the
\* buffer shorter than it found it and goes on; the first iteration that
\* gets none returns the values, the first that fails returns the error
RECURSIVE Iterate(_, _, _)
Iterate(p, items, fuel) ==
    IF fuel = 0 THEN [self |-> p, r |-> Diverged]
    ELSE LET n == get_next(p)
         IN  CASE n.r.k = "Ok" /\ n.r.items.some ->
                    IF Len(n.self.buffer) < Len(p.buffer)
                    THEN Iterate(n.self, Append(items, n.r.items.v), fuel - 1)
                    ELSE [self |-> n.self, r |-> Diverged]
               [] n.r.k = "Ok" /\ ~n.r.items.some -> [self |-> n.self, r |-> Ok(items)]
               [] n.r.k = "Err" -> [self |-> [n.self EXCEPT !.buffer = <<>>], r |-> n.r]
               [] OTHER -> n

\* the call has left what out holds
Left(out) == buffer' = out.self.buffer /\ state' = out.self.state /\ result' = out.r

\* the parser once the call's bytes are pushed, with its saved state taken
Pushed == [buffer |-> buffer \o SubSeq(input, pos + 1, pos'), state |-> None,
           config |-> config]

\* a call that resumes a saved state which is then done, r, has drained at
\* least one byte and run the loop on the rest
C25_Resumed(pushed, r) ==
    (r.k = "Done" /\ r.end <= Len(pushed.buffer)) =>
        /\ r.end >= 1
        /\ Left(Iterate([pushed EXCEPT !.buffer = SubSeq(pushed.buffer, r.end + 1,
                                                        Len(pushed.buffer))],
                        <<r.item>>, Len(pushed.buffer) + 1))

C25_Call(pushed) ==
    IF state.some
    THEN LET r == process_state(pushed, state.v) IN C25_Resumed(pushed, r)
    ELSE Left(Iterate(pushed, <<>>, Len(pushed.buffer) + 1))

C25_Step ==
    /\ result'.k \in {"Ok", "Err", "Panic"}
    /\ result'.k = "Ok" =>
          /\ Len(buffer') + Len(result'.items) <= Len(buffer) + (pos' - pos)
          /\ state'.some
    /\ ~Overflows => LET pushed == Pushed IN C25_Call(pushed)

\* C25: every read call returns, from every buffer and saved state the
\* parser reaches: its loop takes at most one iteration per byte of the
\* buffer and one more, since each iteration that gets a value leaves the
\* buffer at least one byte shorter; it returns at the first iteration that
\* gets no value, with the parser suspended, or at the first error; a call
\* never returns more values than the bytes it drained.
C25_Termination == [][C25_Step]_vars

\* C25's case: one call has run the loop three times, twice for a value and
\* once for the frame left incomplete
C25_Witness ==
    /\ result.k = "Ok"
    /\ Len(result.items) = 2
    /\ buffer # <<>>
    /\ ~failed

\* ---- C26 --------------------------------------------------------------

\* the call that brings the byte after the '\r' of the line of the frame at
\* offset from, when that byte is not '\n', fails with the ReadlineError
\* that reports the byte
C26_Line(from, cr, byte) ==
    (BringsAfter(cr) /\ input[cr + 1] # "\n") =>
        result' = Err(ReadlineError([why |-> "expected_lf", got |-> byte]))

\* C26 as stated: when read fails because the byte after a '\r' is not
\* '\n', the error reports that byte, the one located immediately after the
\* '\r', wherever the line stands in the buffer and whatever the resumption
\* cursor.
C26_OffendingByte ==
    [][(~failed /\ pos' > pos /\ ValsWithin) =>
          \A from \in LineStarts :
              input[from + 1] \in TypeBytes =>
                  C26_Line(from, CRFrom(from), input[CRFrom(from) + 1])]_vars

\* the cursor from which the line of the stream's first frame is scanned by
\* the next call: the saved one, or the byte after the type byte
ScanCursor ==
    IF state.some /\ state.v.tag # "GetType" THEN state.v.cursor ELSE 1

\* what holds of the code, for the first line of a stream: the byte
\* reported is the one at buffer index cr + 1 where cr is the distance of
\* the '\r' from the cursor the scan started at, which is the byte after
\* the '\r' only for a scan from index 0
C26_ReportedByte ==
    [][(~failed /\ pos' > pos /\ vals = <<>> /\ input # <<>> /\ input[1] \in TypeBytes) =>
          C26_Line(0, FirstCR, input[FirstCR - ScanCursor + 1])]_vars

\* "+a\rx" has been refused with the error reporting '\r', the byte at
\* index 2, and not 'x'
C26_WrongByte ==
    /\ input = <<"+", "a", "\r", "x">>
    /\ pos = 4
    /\ result = Err(ReadlineError([why |-> "expected_lf", got |-> "\r"]))

\* ---- C27 --------------------------------------------------------------

\* the parser is as RespParser::new leaves it
Fresh ==
    /\ buffer = RespParser_new(config).buffer
    /\ state = RespParser_new(config).state

\* C27 as stated: after any read call that returns an error, the one of
\* the buffer limit included, the parser holds no saved state and an empty
\* buffer, as a freshly constructed parser does.
C27_ResetOnFailure == result.k = "Err" => Fresh

\* what holds of the code: a call that fails while parsing leaves a fresh
\* parser; a call that fails on the buffer limit clears the buffer and
\* leaves the saved state as it was
C27_ResetUnlessOverflow ==
    [][/\ (result'.k = "Err" /\ ~Overflows) => Fresh'
       /\ Overflows => (result' = Err(SizeExceededError) /\ buffer' = <<>> /\ state' = state)]_vars

\* a call has failed on the buffer limit and the parser still holds the
\* state of the line it was suspended on
C27_StaleState ==
    /\ result = Err(SizeExceededError)
    /\ config.max_buffer_size = SmallBuf
    /\ buffer = <<>>
    /\ state.some
    /\ state.v.tag = "Simple"
    /\ state.v.cursor > 0

\* ---- C28 --------------------------------------------------------------

\* every cursor and start of a saved state, child states included, is
\* within the buffer: start <= cursor <= len
RECURSIVE CursorsWithin(_, _)
CursorsWithin(st, len) ==
    /\ st.cursor <= len
    /\ st.tag # "GetType" => st.start <= st.cursor
    /\ (st.tag = "Array" /\ st.substate.some) => CursorsWithin(st.substate.v, len)

\* C28 as stated: in every reachable state, after calls that succeeded or
\* failed, every cursor and start of the saved state satisfies
\* start <= cursor <= buffer length, and no read panics.
C28_CursorBounds ==
    /\ state.some => CursorsWithin(state.v, Len(buffer))
    /\ result.k # "Panic"

\* what holds of the code: the bounds hold, and no call panics, as long as
\* no call has failed
C28_BoundsUntilFailure ==
    ~failed =>
        /\ state.some => CursorsWithin(state.v, Len(buffer))
        /\ result.k # "Panic"

\* a read has panicked: it resumed a state left by a call that failed on
\* the buffer limit, with a cursor beyond the bytes now in the buffer
C28_Panicked ==
    /\ result.k = "Panic"
    /\ failed
    /\ config.max_buffer_size = SmallBuf

\* ---- C29 --------------------------------------------------------------

\* the offset at which the well-formed frames of the stream end
ValsEnd == FrameEnd(Len(vals))

\* a byte that is no type byte stands right behind the well-formed frames,
\* under the default configuration: the call that brings it is the first to
\* fail, and every frame of vals has ended by then
BadByteBehindVals ==
    /\ config = RespConfig_default
    /\ vals # <<>>
    /\ ValsEnd < Len(input)
    /\ input[ValsEnd + 1] \notin TypeBytes

\* the values returned by the call are none of those of the frames of vals
NoneOfVals(from, to) ==
    \A i \in (from + 1)..to : \A j \in 1..Len(vals) : emitted'[i] # vals[j]

C29_Step ==
    /\ result'.k = "Err" => (emitted' = emitted /\ buffer' = <<>>)
    /\ BadByteBehindVals =>
          /\ (~failed /\ pos <= ValsEnd /\ ValsEnd < pos') =>
                /\ result' = Err(TypeTokenError(input[ValsEnd + 1]))
                /\ emitted' = emitted
                /\ Len(emitted) = Cardinality({i \in 1..Len(vals) : FrameEnd(i) <= pos})
          /\ failed => NoneOfVals(Len(emitted), Len(emitted'))

\* C29: a call that fails returns no value and clears the buffer, values
\* whose frames it completed before the failure included; when the call
\* that brings a bad byte right behind well-formed frames fails, the frames
\* that ended in that call have not been returned, and no later call
\* returns their values.
C29_LossOnFailure == [][C29_Step]_vars

\* C29's case: "+a\r\n#+b\r\n"; the call that ended the first frame also
\* brought the '#' and failed; a later call has returned the value of the
\* frame behind the '#', and the first value has never been returned
C29_Witness ==
    /\ vals = <<SimpleString(<<"a">>)>>
    /\ input = <<"+", "a", "\r", "\n", "#", "+", "b", "\r", "\n">>
    /\ config = RespConfig_default
    /\ pos = Len(input)
    /\ failed
    /\ emitted = <<SimpleString(<<"b">>)>>

====
